---- MODULE Spec2Model ----
(***************************************************************************)
(* tuxvantage: layered configuration store, handler policy and the battery *)
(* conservation regulation loop.                                           *)
(***************************************************************************)
EXTENDS Integers, Sequences, FiniteSets, TLC

VARIABLES
    pc,          \* position of the main thread
    args,        \* parsed command line (args::TuxVantage)
    tuxvantage,  \* config::TuxVantage: persisted fields plus the overrides layer
    resolved,    \* values returned by the resolution methods (snapshot)
    locals,      \* handler / threshold / cooldown bound by the running action
    lock,        \* guard of the CONFIG RwLock held by the main thread
    hwstate,     \* live hardware state: conservation / rapid charge enabled
    hw,          \* toggles issued to the hardware, in order
    hwerr,       \* error kind returned by the last hardware layer call
    calls,       \* enable/disable requests made by the regulation loop, in order
    readings,    \* state of charge (x100, in tenths) read in each cycle, in order
    charge,      \* state of charge (x100, in tenths) held by the battery handle
    refreshErr,  \* whether the last battery.refresh() of the loop returned Err
    batteries,   \* what the battery enumeration yields to the lookup
    battery,     \* battery selected by BatteryConfig::get
    diag,        \* outcome of the diagnostic listing of batteries
    result,      \* outcome of the action run by main
    started,     \* auxiliary units started by regulate (listener, timers)
    signalChan,  \* messages in signal_receiver's bounded(1) channel
    sigPending,  \* signals delivered to the process, not yet forwarded
    sigSeen,     \* number of signals forwarded by the listener so far
    listener,    \* state of the signal listener thread
    timer,       \* state of the timer thread of the current cycle
    sleepChan,   \* messages in sleep_receiver's bounded(1) channel
    host,        \* what the machine presents: product, executable path, files
    cell,        \* whether the CONFIG OnceCell holds a store
    inits,       \* number of calls of config::initialize so far
    initErrors,  \* what the last config::initialize returned
    loads,       \* number of times the persisted files were loaded
    profiles,    \* external profiles held by the store, in load order
    context,     \* hardware context created by main (the active profile)
    evaluated,   \* profiles examined by auto-detection, in order
    consistency, \* consistency record held by the store
    ledger,      \* consistency record as last dumped to its file
    statics,     \* main's MACHINE, BACKTRACE and PANIC flags
    out          \* reports of the outcome: the messages the operations print
                 \* unless machine mode is effective, and main's final report

cfgVars == <<tuxvantage, resolved, locals>>
hwVars == <<hwstate, hw, hwerr>>
loopVars == <<calls, readings, charge, refreshErr, started>>
batVars == <<batteries, battery, diag>>
sigVars == <<signalChan, sigPending, sigSeen, listener>>
timerVars == <<timer, sleepChan>>
envVars == <<host, cell, inits, initErrors, loads, profiles, context, evaluated,
            consistency, ledger>>
outVars == <<statics, out>>
vars == <<pc, args, tuxvantage, resolved, locals, lock, hwstate, hw, hwerr,
          calls, readings, charge, refreshErr, batteries, battery, diag, result, started,
          signalChan, sigPending, sigSeen, listener, timer, sleepChan,
          host, cell, inits, initErrors, loads, profiles, context, evaluated,
          consistency, ledger, statics, out>>

(***************************************************************************)
(* Option<T>: None is the empty tuple, Some(v) the one-element tuple.      *)
(***************************************************************************)
None == <<>>

Some(v) == <<v>>

IsSome(o) == o # None

Or(a, b) == IF IsSome(a) THEN a ELSE b

UnwrapOr(o, d) == IF IsSome(o) THEN o[1] ELSE d

Option(S) == {None} \cup {Some(v) : v \in S}

(***************************************************************************)
(* Value domains.                                                          *)
(***************************************************************************)
Handler == {"Switch", "Ignore", "Error"}

Machine == {"Always", "Never", "Auto"}

First == [kind |-> "First", index |-> 0, name |-> ""]

Index(i) == [kind |-> "Index", index |-> i, name |-> ""]

Vendor(v) == [kind |-> "Vendor", index |-> 0, name |-> v]

BatteryLevel_DEFAULT == 80

CoolDown_DEFAULT == 60

Handlers_DEFAULT ==
    [default |-> None, battery_conservation |-> None, rapid_charging |-> None]

BatteryConfig_DEFAULT ==
    [matches |-> None, infallible |-> FALSE, threshold |-> None, cooldown |-> None]

Backtrace_DEFAULT == [panics |-> FALSE, errors |-> FALSE]

Overrides_DEFAULT ==
    [profile |-> None, handlers |-> Handlers_DEFAULT, machine |-> None,
     battery |-> BatteryConfig_DEFAULT,
     panic |-> FALSE, backtrace |-> Backtrace_DEFAULT]

TuxVantage_DEFAULT ==
    [profile |-> None, handlers |-> Handlers_DEFAULT, machine |-> None,
     battery |-> BatteryConfig_DEFAULT,
     panic |-> FALSE, backtrace |-> Backtrace_DEFAULT,
     overrides |-> Overrides_DEFAULT]

(***************************************************************************)
(* Resolution methods of the configuration store.                          *)
(***************************************************************************)
Handlers_default(h) == UnwrapOr(h.default, "Switch")

Handlers_battery_conservation_global(h) == Handlers_default(h)

Handlers_battery_conservation(h) ==
    IF IsSome(h.battery_conservation) THEN h.battery_conservation[1]
    ELSE Handlers_default(h)

Handlers_rapid_charging(h) ==
    IF IsSome(h.rapid_charging) THEN h.rapid_charging[1]
    ELSE Handlers_default(h)

BatteryConfig_matches_first(b) == First

BatteryConfig_matches(b) == UnwrapOr(b.matches, First)

BatteryConfig_threshold(b) == UnwrapOr(b.threshold, BatteryLevel_DEFAULT)

BatteryConfig_cooldown(b) == UnwrapOr(b.cooldown, CoolDown_DEFAULT)

TuxVantage_profile(tv) == Or(tv.overrides.profile, tv.profile)

TuxVantage_machine(tv) ==
    IF IsSome(tv.overrides.machine) THEN tv.overrides.machine[1]
    ELSE IF IsSome(tv.machine) THEN tv.machine[1]
    ELSE "Auto"

Machine_get(m, h) ==
    CASE m = "Always" -> TRUE
      [] m = "Never" -> FALSE
      [] OTHER -> ~h.stdout_tty

TuxVantage_panic_override_only(tv) == tv.overrides.panic

TuxVantage_panic(tv) == tv.overrides.panic \/ tv.panic

TuxVantage_backtrace(tv) ==
    [panics |-> tv.overrides.backtrace.panics \/ tv.backtrace.panics,
     errors |-> tv.overrides.backtrace.errors \/ tv.backtrace.errors]

TuxVantage_battery_config_override_only(tv) ==
    [matches    |-> Or(tv.overrides.battery.matches, tv.battery.matches),
     infallible |-> tv.overrides.battery.infallible \/ tv.battery.infallible,
     threshold  |-> tv.overrides.battery.threshold,
     cooldown   |-> Or(tv.overrides.battery.cooldown, tv.battery.cooldown)]

TuxVantage_battery_config(tv) ==
    [matches    |-> Or(tv.overrides.battery.matches, tv.battery.matches),
     infallible |-> tv.overrides.battery.infallible \/ tv.battery.infallible,
     threshold  |-> Or(tv.overrides.battery.threshold, tv.battery.threshold),
     cooldown   |-> Or(tv.overrides.battery.cooldown, tv.battery.cooldown)]

TuxVantage_handlers_layered(tv) ==
    [default |-> Or(tv.overrides.handlers.default, tv.handlers.default),
     battery_conservation |->
        Or(Or(tv.overrides.handlers.battery_conservation,
              tv.overrides.handlers.default),
           tv.handlers.battery_conservation),
     rapid_charging |->
        Or(Or(tv.overrides.handlers.rapid_charging,
              tv.overrides.handlers.default),
           tv.handlers.rapid_charging)]

TuxVantage_handlers_persisted_first(tv) ==
    [default |-> Or(tv.handlers.default, tv.overrides.handlers.default),
     battery_conservation |->
        Or(tv.handlers.battery_conservation,
           tv.overrides.handlers.battery_conservation),
     rapid_charging |->
        Or(tv.handlers.rapid_charging, tv.overrides.handlers.rapid_charging)]

TuxVantage_handlers(tv) ==
    [default |-> Or(tv.overrides.handlers.default, tv.handlers.default),
     battery_conservation |->
        Or(tv.overrides.handlers.battery_conservation,
           tv.handlers.battery_conservation),
     rapid_charging |->
        Or(tv.overrides.handlers.rapid_charging, tv.handlers.rapid_charging)]

(***************************************************************************)
(* Writes to the overrides layer.                                          *)
(***************************************************************************)
SetStartupOverrides(tv, a) ==
    [tv EXCEPT !.overrides.machine = a.machine,
               !.overrides.profile = a.profile,
               !.overrides.handlers.default = a.handler,
               !.overrides.backtrace = a.backtrace,
               !.overrides.panic = a.panic]

SetBatteryConservationOverride(tv, handler) ==
    [tv EXCEPT !.overrides.handlers.battery_conservation = handler]

SetRapidChargingOverrideMisplaced(tv, handler) ==
    [tv EXCEPT !.overrides.handlers.battery_conservation = handler]

SetRapidChargingOverride(tv, handler) ==
    [tv EXCEPT !.overrides.handlers.rapid_charging = handler]

SetBatteryOverride(tv, a) ==
    [tv EXCEPT !.overrides.battery =
        [threshold  |-> Some(a.threshold),
         cooldown   |-> Some(a.cooldown),
         infallible |-> a.infallible,
         matches    |-> a.matches]]

(***************************************************************************)
(* Hardware command layer: the two mutually exclusive toggles and the      *)
(* handler policy applied when one of them is enabled.  A call may fail at *)
(* the disable of a feature or at the enable of the requested feature; a   *)
(* failed toggle leaves the hardware state as it was.                      *)
(***************************************************************************)
Feature == {"bc", "rc"}

Conflicting(f) == IF f = "bc" THEN "rc" ELSE "bc"

FailPoints == {"none", "disable", "enable"}

Toggle(f, on, ok) == [feature |-> f, on |-> on, ok |-> ok]

EnableUnchecked(f, st, fail) ==
    IF fail = "enable"
    THEN [st |-> st, log |-> <<Toggle(f, TRUE, FALSE)>>, ok |-> FALSE,
          err |-> "hardware"]
    ELSE [st |-> [st EXCEPT ![f] = TRUE], log |-> <<Toggle(f, TRUE, TRUE)>>,
          ok |-> TRUE, err |-> "none"]

EnableError(f, st, fail) ==
    IF st[Conflicting(f)]
    THEN [st |-> st, log |-> <<>>, ok |-> FALSE, err |-> "conflict"]
    ELSE EnableUnchecked(f, st, fail)

EnableSwitch(f, st, fail) ==
    LET c == Conflicting(f) IN
    IF st[c]
    THEN IF fail = "disable"
         THEN [st |-> st, log |-> <<Toggle(c, FALSE, FALSE)>>, ok |-> FALSE,
               err |-> "hardware"]
         ELSE LET r == EnableUnchecked(f, [st EXCEPT ![c] = FALSE], fail)
              IN  [r EXCEPT !.log = <<Toggle(c, FALSE, TRUE)>> \o r.log]
    ELSE EnableUnchecked(f, st, fail)

EnableNow(f, handler, st, fail) ==
    CASE handler = "Ignore" -> EnableUnchecked(f, st, fail)
      [] handler = "Error"  -> EnableError(f, st, fail)
      [] handler = "Switch" -> EnableSwitch(f, st, fail)

DisableNow(f, st, fail) ==
    IF fail = "disable"
    THEN [st |-> st, log |-> <<Toggle(f, FALSE, FALSE)>>, ok |-> FALSE,
          err |-> "hardware"]
    ELSE [st |-> [st EXCEPT ![f] = FALSE], log |-> <<Toggle(f, FALSE, TRUE)>>,
          ok |-> TRUE, err |-> "none"]

OutcomeSwallowed(r) == "ok"

Outcome(r) == IF r.ok THEN "ok" ELSE "err"

(***************************************************************************)
(* Battery enumeration and selection.  An enumeration entry is either a    *)
(* battery (ok) with an optional vendor or an enumeration error.           *)
(***************************************************************************)
MaxBatteries == 2

VendorNames == {"A", "B"}

BatteryEntry(v) == [ok |-> TRUE, vendor |-> v]

ErrorEntry == [ok |-> FALSE, vendor |-> None]

Entries == {ErrorEntry} \cup {BatteryEntry(v) : v \in Option(VendorNames)}

BatteryMatches_matches(m, index, b) ==
    CASE m.kind = "First"  -> index = 0
      [] m.kind = "Index"  -> m.index = index
      [] m.kind = "Vendor" -> IF IsSome(b.vendor) THEN b.vendor[1] = m.name ELSE FALSE

BatteryMatches_find_lazy(m, entries) ==
    LET hits == {i \in 1..Len(entries) :
                    /\ entries[i].ok
                    /\ BatteryMatches_matches(m, i - 1, entries[i])}
        stop == IF hits = {} THEN Len(entries)
                ELSE CHOOSE i \in hits : \A j \in hits : i <= j
    IN  IF \E i \in 1..stop : ~entries[i].ok
        THEN [ok |-> FALSE, battery |-> None]
        ELSE [ok |-> TRUE,
              battery |-> IF hits = {} THEN None ELSE Some(entries[stop])]

BatteryMatches_find(m, entries) ==
    IF \E i \in 1..Len(entries) : ~entries[i].ok
    THEN [ok |-> FALSE, battery |-> None]
    ELSE LET hits == {i \in 1..Len(entries) :
                        BatteryMatches_matches(m, i - 1, entries[i])}
         IN  [ok |-> TRUE,
              battery |-> IF hits = {} THEN None
                          ELSE Some(entries[CHOOSE i \in hits :
                                              \A j \in hits : i <= j])]

RECURSIVE FindInfallibleFrom(_, _, _, _)
FindInfallibleFrom(m, entries, i, errors) ==
    IF i > Len(entries) THEN [battery |-> None, errors |-> errors]
    ELSE IF ~entries[i].ok
    THEN FindInfallibleFrom(m, entries, i + 1, Append(errors, i - 1))
    ELSE IF BatteryMatches_matches(m, i - 1, entries[i])
    THEN [battery |-> Some(entries[i]), errors |-> errors]
    ELSE FindInfallibleFrom(m, entries, i + 1, errors)

BatteryMatches_find_infallible(m, entries) ==
    FindInfallibleFrom(m, entries, 1, <<>>)

BatteryConfig_get(b, bats) ==
    IF ~bats.manager_ok
    THEN [ok |-> FALSE, battery |-> None, errors |-> <<>>]
    ELSE IF b.infallible
    THEN LET r == BatteryMatches_find_infallible(BatteryConfig_matches(b),
                                                 bats.entries)
         IN  [ok |-> TRUE, battery |-> r.battery, errors |-> r.errors]
    ELSE LET r == BatteryMatches_find(BatteryConfig_matches(b), bats.entries)
         IN  IF r.ok
             THEN [ok |-> TRUE, battery |-> r.battery, errors |-> <<>>]
             ELSE [ok |-> FALSE, battery |-> None, errors |-> <<>>]

(***************************************************************************)
(* Profiles.  A profile is its name, its expected product names and its    *)
(* provenance; the built-in ones come first in every search.               *)
(***************************************************************************)
Profile(name, products, builtin) ==
    [name |-> name, products |-> products, builtin |-> builtin]

BuiltInProfiles ==
    <<Profile("Ideapad15IIL05", {"81YK"}, TRUE),
      Profile("Ideapad15Amd", {"81YQ"}, TRUE)>>

Profiles_with_built_ins_last(externals) == externals \o BuiltInProfiles

Profiles_with_built_ins(externals) == BuiltInProfiles \o externals

FirstIndex(hits) ==
    IF hits = {} THEN 0 ELSE CHOOSE i \in hits : \A j \in hits : i <= j

Profiles_find_last(externals, name) ==
    LET path == Profiles_with_built_ins(externals)
        hits == {i \in 1..Len(path) : path[i].name = name}
    IN  IF hits = {} THEN None
        ELSE Some(path[CHOOSE i \in hits : \A j \in hits : j <= i])

Profiles_find(externals, name) ==
    LET path == Profiles_with_built_ins(externals)
        i == FirstIndex({k \in 1..Len(path) : path[k].name = name})
    IN  IF i = 0 THEN None ELSE Some(path[i])

Config_default_profile(tv, externals) ==
    LET name == TuxVantage_profile(tv)
    IN  IF name = None THEN None
        ELSE LET found == Profiles_find(externals, name[1])
             IN  Some([ok |-> found # None, profile |-> found])

Profile_find_with_search_path(path, product) ==
    IF product = None
    THEN [ok |-> FALSE, profile |-> None, evaluated |-> <<>>]
    ELSE LET i == FirstIndex({k \in 1..Len(path) : product[1] \in path[k].products})
         IN  IF i = 0
             THEN [ok |-> FALSE, profile |-> None, evaluated |-> path]
             ELSE [ok |-> TRUE, profile |-> Some(path[i]),
                   evaluated |-> SubSeq(path, 1, i)]

ResolveProfile(tv, externals, product) ==
    LET default_profile == Config_default_profile(tv, externals)
    IN  IF default_profile # None
        THEN [ok |-> default_profile[1].ok,
              profile |-> default_profile[1].profile,
              evaluated |-> <<>>]
        ELSE Profile_find_with_search_path(Profiles_with_built_ins(externals),
                                           product)

(***************************************************************************)
(* The host and the store's loading.  A profile file either deserializes   *)
(* to a profile or fails to be read or parsed.                             *)
(***************************************************************************)
ProfileFile(q) == [ok |-> TRUE, profile |-> Some(q)]

BrokenFile == [ok |-> FALSE, profile |-> None]

Host_DEFAULT ==
    [product |-> Some("81YK"), current_exe |-> Some("exe1"),
     config_file |-> "ok", profiles_dir |-> TRUE, profile_files |-> <<>>,
     stdout_tty |-> TRUE, unit |-> FALSE]

Consistency_DEFAULT == [regulator_service_installed |-> FALSE, last_exe |-> None]

Profiles_get_abort(h) ==
    LET files == h.profile_files
        bad == {i \in 1..Len(files) : ~files[i].ok}
        stop == IF bad = {} THEN Len(files) + 1
                ELSE CHOOSE i \in bad : \A j \in bad : i <= j
    IN  [ok |-> h.profiles_dir,
         profiles |-> [k \in 1..(stop - 1) |-> files[k].profile[1]],
         errors |-> IF bad = {} THEN <<>> ELSE <<stop>>]

Profiles_get(h) ==
    LET files == h.profile_files
        indices == [i \in 1..Len(files) |-> i]
        good == SelectSeq(indices, LAMBDA i : files[i].ok)
        bad == SelectSeq(indices, LAMBDA i : ~files[i].ok)
    IN  [ok |-> h.profiles_dir,
         profiles |-> [k \in 1..Len(good) |-> files[good[k]].profile[1]],
         errors |-> bad]

Config_get(h) ==
    LET loaded == Profiles_get(h)
    IN  IF h.config_file = "uncreatable" \/ ~loaded.ok
           \/ h.config_file \in {"unreadable", "unparsable"}
        THEN [ok |-> FALSE, profiles |-> <<>>, errors |-> <<>>]
        ELSE [ok |-> TRUE, profiles |-> loaded.profiles, errors |-> loaded.errors]

Config_initialize_reload(c, h, held, n) ==
    LET got == Config_get(h)
    IN  [ok |-> got.ok, cell |-> c \/ got.ok,
         profiles |-> IF got.ok THEN got.profiles ELSE held,
         errors |-> got.errors, loads |-> n + 1]

Config_initialize_lenient(c, h, held, n) ==
    IF ~c
    THEN LET got == Config_get(h)
         IN  [ok |-> TRUE, cell |-> got.ok,
              profiles |-> IF got.ok THEN got.profiles ELSE held,
              errors |-> got.errors, loads |-> n + 1]
    ELSE [ok |-> TRUE, cell |-> TRUE, profiles |-> held, errors |-> <<>>,
          loads |-> n]

Config_initialize(c, h, held, n) ==
    IF ~c
    THEN LET got == Config_get(h)
         IN  [ok |-> got.ok, cell |-> got.ok,
              profiles |-> IF got.ok THEN got.profiles ELSE held,
              errors |-> got.errors, loads |-> n + 1]
    ELSE [ok |-> TRUE, cell |-> TRUE, profiles |-> held, errors |-> <<>>,
          loads |-> n]

ConsistencyCheckAlways(c, a, h) ==
    IF ~a.skip_consistency_checks
    THEN [c EXCEPT !.last_exe = h.current_exe]
    ELSE c

ConsistencyCheck(c, a, h) ==
    IF ~a.skip_consistency_checks /\ c.last_exe = None
    THEN [c EXCEPT !.last_exe = h.current_exe]
    ELSE c

ProfileActions ==
    {"profiles_get", "profiles_get_default", "profiles_set",
     "profiles_set_default", "profiles_remove", "profiles_json"}

(***************************************************************************)
(* Charge fraction to integer percentage: (value * 100.0).round() as u8,   *)
(* round half away from zero, saturating at the width of u8.               *)
(***************************************************************************)
U8Max == 255

BatteryLevelTruncated(c) ==
    LET truncated == c \div 10
    IN  IF truncated > U8Max THEN U8Max ELSE truncated

BatteryLevelOf(c) ==
    LET rounded == (c + 5) \div 10
    IN  IF rounded > U8Max THEN U8Max ELSE rounded

(***************************************************************************)
(* Bounds and input domains of the main specification.                     *)
(***************************************************************************)
MaxCycles == 3

MaxSignals == 2

ChargeValues == {500, 795, 850}

Actions == {"bc_enable", "bc_disable", "rc_enable", "rc_disable", "regulate"}

EnableActions == {"bc_enable", "rc_enable"}

PersistedHandlers ==
    {Handlers_DEFAULT,
     [Handlers_DEFAULT EXCEPT !.default = Some("Ignore")],
     [Handlers_DEFAULT EXCEPT !.battery_conservation = Some("Error")],
     [Handlers_DEFAULT EXCEPT !.default = Some("Error"),
                              !.rapid_charging = Some("Ignore")]}

NoBatteries == [manager_ok |-> TRUE, entries |-> <<>>]

EnumerationsOf(lists) ==
    {[manager_ok |-> m, entries |-> e] : m \in BOOLEAN, e \in lists}

LoopBatteries ==
    EnumerationsOf({<<>>, <<BatteryEntry(Some("A"))>>,
                    <<ErrorEntry, BatteryEntry(Some("A"))>>})

ArgsOf(action) ==
    [machine : {None}, profile : {None}, handler : Option(Handler),
     action : {action},
     panic : {FALSE}, backtrace : {Backtrace_DEFAULT},
     skip_consistency_checks : {FALSE}, install : {FALSE},
     op_handler : IF action \in EnableActions THEN Option(Handler) ELSE {None},
     threshold : {BatteryLevel_DEFAULT}, cooldown : {CoolDown_DEFAULT},
     infallible : IF action = "regulate" THEN BOOLEAN ELSE {FALSE},
     matches : {None}]

NoStarted == [listener |-> FALSE, timers |-> 0]

Statics_DEFAULT == [MACHINE |-> FALSE, BACKTRACE |-> FALSE, PANIC |-> FALSE]

NoLocals == [handler |-> "Switch", threshold |-> 0, cooldown |-> 0]

InitProcess ==
    /\ pc = "start"
    /\ resolved = None
    /\ locals = NoLocals
    /\ lock = "none"
    /\ hw = <<>>
    /\ hwerr = "none"
    /\ calls = <<>>
    /\ readings = <<>>
    /\ charge = 0
    /\ refreshErr = FALSE
    /\ battery = None
    /\ diag = "none"
    /\ result = "none"
    /\ started = NoStarted
    /\ signalChan = 0
    /\ sigPending = 0
    /\ sigSeen = 0
    /\ listener = "none"
    /\ timer = "none"
    /\ sleepChan = 0
    /\ cell = FALSE
    /\ inits = 0
    /\ initErrors = None
    /\ loads = 0
    /\ profiles = <<>>
    /\ context = None
    /\ evaluated = <<>>
    /\ statics = Statics_DEFAULT
    /\ out = <<>>

InitEnv ==
    /\ host = Host_DEFAULT
    /\ consistency = Consistency_DEFAULT
    /\ ledger = Consistency_DEFAULT

Init ==
    /\ InitProcess
    /\ InitEnv
    /\ args \in UNION {ArgsOf(a) : a \in Actions}
    /\ tuxvantage \in {[TuxVantage_DEFAULT EXCEPT !.handlers = h] :
                         h \in PersistedHandlers}
    /\ hwstate \in [Feature -> BOOLEAN]
    /\ batteries \in IF args.action = "regulate" THEN LoopBatteries
                     ELSE {NoBatteries}

(***************************************************************************)
(* The CONFIG RwLock as the main thread uses it.  Each handler requests    *)
(* and releases views of the store in a fixed order; the lock is not       *)
(* reentrant, so a request made while the thread holds the write guard, or *)
(* a write request made while it holds a read guard, never returns.        *)
(***************************************************************************)
RECURSIVE LockFold(_, _, _, _)
LockFold(ops, i, writer, readers) ==
    IF i > Len(ops) THEN [hung |-> FALSE, writer |-> writer, readers |-> readers]
    ELSE CASE ops[i] = "read" ->
                IF writer
                THEN [hung |-> TRUE, writer |-> writer, readers |-> readers]
                ELSE LockFold(ops, i + 1, writer, readers + 1)
           [] ops[i] = "write" ->
                IF writer \/ readers > 0
                THEN [hung |-> TRUE, writer |-> writer, readers |-> readers]
                ELSE LockFold(ops, i + 1, TRUE, readers)
           [] ops[i] = "downgrade" -> LockFold(ops, i + 1, FALSE, readers + 1)
           [] ops[i] = "drop_read" -> LockFold(ops, i + 1, writer, readers - 1)
           [] ops[i] = "drop_write" -> LockFold(ops, i + 1, FALSE, readers)

LockRun(ops) == LockFold(ops, 1, FALSE, 0)

Held(run) ==
    IF run.writer THEN "write" ELSE IF run.readers > 0 THEN "read" ELSE "none"

Locks_main == <<"read", "drop_read", "write", "downgrade", "drop_read">>

Locks_enable == <<"write", "downgrade", "drop_read">>

Locks_disable == <<"read", "drop_read">>

Locks_regulate == <<"write">>

Locks_get == <<"read", "drop_read">>

Locks_get_default == <<"read", "read", "drop_read", "drop_read">>

Locks_set == <<"read", "drop_read", "read", "drop_read">>

Locks_set_default_machine == <<"write", "read", "drop_read", "drop_write">>

Locks_set_default == <<"write", "drop_write">>

Locks_remove == <<"read", "drop_read", "read", "drop_read">>

Locks_json == <<"read", "drop_read">>

Hang(held) ==
    /\ pc' = "deadlock"
    /\ lock' = held
    /\ UNCHANGED <<args, cfgVars, result>>
    /\ UNCHANGED <<hwVars, loopVars, batVars, sigVars, timerVars, envVars>>
    /\ UNCHANGED outVars

RunOrHang(entered, ops, Run) ==
    IF LockRun(ops).hung THEN entered /\ Hang(Held(LockRun(ops))) ELSE Run

(***************************************************************************)
(* main: configuration store initialised, overrides taken from the         *)
(* arguments under the write guard, guard downgraded, hardware context     *)
(* created, guard dropped at the end of the scope.                         *)
(***************************************************************************)
StartupFail ==
    /\ pc' = "done"
    /\ result' = "err"

StartupRun ==
    /\ pc = "start"
    /\ LET init == Config_initialize(cell, host, profiles, loads)
       IN  /\ cell' = init.cell
           /\ profiles' = init.profiles
           /\ inits' = inits + 1
           /\ initErrors' = Some([ok |-> init.ok, errors |-> init.errors])
           /\ loads' = init.loads
           /\ IF \/ ~init.ok
                 \/ ~args.skip_consistency_checks /\ host.current_exe = None
              THEN /\ StartupFail
                   /\ statics' =
                        [MACHINE |-> Machine_get(UnwrapOr(args.machine, "Auto"), host),
                         BACKTRACE |-> ~init.ok /\ args.backtrace.errors,
                         PANIC |-> args.panic]
                   /\ UNCHANGED <<tuxvantage, consistency, context, evaluated>>
              ELSE /\ consistency' = ConsistencyCheck(consistency, args, host)
                   /\ tuxvantage' = SetStartupOverrides(tuxvantage, args)
                   /\ statics' =
                        [MACHINE |-> Machine_get(UnwrapOr(args.machine, "Auto"), host),
                         BACKTRACE |-> TuxVantage_backtrace(tuxvantage').errors,
                         PANIC |-> TuxVantage_panic(tuxvantage')]
                   /\ IF args.action \in ProfileActions
                      THEN /\ pc' = "action"
                           /\ UNCHANGED <<result, context, evaluated>>
                      ELSE LET r == ResolveProfile(tuxvantage', init.profiles,
                                                   host.product)
                           IN  /\ evaluated' = r.evaluated
                               /\ context' = r.profile
                               /\ IF r.ok
                                  THEN pc' = "action" /\ result' = result
                                  ELSE StartupFail
    /\ lock' = "none"
    /\ UNCHANGED <<args, resolved, locals, host, ledger, out>>
    /\ UNCHANGED <<hwVars, loopVars, batVars, sigVars, timerVars>>

Startup ==
    RunOrHang(pc = "start", Locks_main,
              StartupRun)

(***************************************************************************)
(* battery_conservation::enable / rapid_charge::enable                     *)
(***************************************************************************)
EnableFeatureRun(f, action) ==
    /\ pc = "action"
    /\ args.action = action
    /\ LET tv == IF f = "bc"
                 THEN SetBatteryConservationOverride(tuxvantage, args.op_handler)
                 ELSE SetRapidChargingOverride(tuxvantage, args.op_handler)
           handler == IF f = "bc"
                      THEN Handlers_battery_conservation(TuxVantage_handlers(tv))
                      ELSE Handlers_rapid_charging(TuxVantage_handlers(tv))
       IN  /\ tuxvantage' = tv
           /\ locals' = [locals EXCEPT !.handler = handler]
           /\ \E fail \in FailPoints :
                LET r == EnableNow(f, handler, hwstate, fail)
                IN  /\ hwstate' = r.st
                    /\ hw' = hw \o r.log
                    /\ hwerr' = r.err
                    /\ result' = Outcome(r)
           /\ out' = IF Machine_get(TuxVantage_machine(tv), host)
                     THEN out ELSE Append(out, "text")
    /\ lock' = "none"
    /\ pc' = "done"
    /\ UNCHANGED <<args, resolved, statics>>
    /\ UNCHANGED <<loopVars, batVars, sigVars, timerVars>>
    /\ UNCHANGED envVars

EnableFeature(f, action) ==
    RunOrHang(pc = "action" /\ args.action = action, Locks_enable,
              EnableFeatureRun(f, action))

BatteryConservationEnable == EnableFeature("bc", "bc_enable")

RapidChargeEnable == EnableFeature("rc", "rc_enable")

(***************************************************************************)
(* battery_conservation::disable / rapid_charge::disable                   *)
(***************************************************************************)
DisableFeatureRun(f, action) ==
    /\ pc = "action"
    /\ args.action = action
    /\ \E fail \in FailPoints :
         LET r == DisableNow(f, hwstate, fail)
         IN  /\ hwstate' = r.st
             /\ hw' = hw \o r.log
             /\ hwerr' = r.err
             /\ result' = Outcome(r)
             /\ out' = IF r.ok /\ ~Machine_get(TuxVantage_machine(tuxvantage), host)
                       THEN Append(out, "text") ELSE out
    /\ pc' = "done"
    /\ UNCHANGED <<args, cfgVars, lock, statics>>
    /\ UNCHANGED <<loopVars, batVars, sigVars, timerVars>>
    /\ UNCHANGED envVars

DisableFeature(f, action) ==
    RunOrHang(pc = "action" /\ args.action = action, Locks_disable,
              DisableFeatureRun(f, action))

BatteryConservationDisable == DisableFeature("bc", "bc_disable")

RapidChargeDisable == DisableFeature("rc", "rc_disable")

(***************************************************************************)
(* battery_conservation::regulate, up to the start of the loop: write      *)
(* guard taken, battery overrides set, battery looked up, values resolved, *)
(* signal channel and listener created.                                    *)
(***************************************************************************)
RegulateFail ==
    /\ result' = "err"
    /\ pc' = "done"
    /\ lock' = "none"

InstallFailPoints == {"none", "systemd", "write", "dump", "reload"}

Consistency_mutate_then_dump(c, l, exe, dumped) ==
    LET mutated == [c EXCEPT !.regulator_service_installed = TRUE,
                             !.last_exe = exe]
    IN  [consistency |-> mutated,
         ledger |-> IF dumped THEN mutated ELSE l,
         ok |-> dumped]

RegulateInstallRun ==
    /\ pc = "action"
    /\ args.action = "regulate"
    /\ args.install
    /\ \E fail \in InstallFailPoints :
          IF fail \in {"systemd", "write"} \/ host.current_exe = None
          THEN /\ result' = "err"
               /\ UNCHANGED <<host, consistency, ledger>>
          ELSE LET r == Consistency_mutate_then_dump(consistency, ledger,
                                                    host.current_exe,
                                                    fail # "dump")
               IN  /\ host' = [host EXCEPT !.unit = TRUE]
                   /\ consistency' = r.consistency
                   /\ ledger' = r.ledger
                   /\ result' = IF fail = "none" THEN "ok" ELSE "err"
    /\ pc' = "done"
    /\ lock' = "none"
    /\ UNCHANGED <<args, cfgVars>>
    /\ UNCHANGED <<cell, inits, initErrors, loads, profiles, context, evaluated>>
    /\ UNCHANGED <<hwVars, loopVars, batVars, sigVars, timerVars>>
    /\ UNCHANGED outVars

RegulateInstall ==
    RunOrHang(pc = "action" /\ args.action = "regulate" /\ args.install, Locks_regulate,
              RegulateInstallRun)

RegulateStartRun ==
    /\ pc = "action"
    /\ args.action = "regulate"
    /\ ~args.install
    /\ LET tv == SetBatteryOverride(tuxvantage, args)
           battery_config == TuxVantage_battery_config(tv)
           got == BatteryConfig_get(battery_config, batteries)
       IN  /\ tuxvantage' = tv
           /\ IF ~got.ok
              THEN /\ RegulateFail
                   /\ UNCHANGED <<locals, battery, diag, charge, refreshErr, started, listener>>
              ELSE IF got.battery = None
              THEN /\ \E listed \in BOOLEAN :
                        diag' = IF listed THEN "listed" ELSE "failed"
                   /\ RegulateFail
                   /\ UNCHANGED <<locals, battery, charge, refreshErr, started, listener>>
              ELSE /\ battery' = got.battery
                   /\ charge' \in ChargeValues
                   /\ refreshErr' = FALSE
                   /\ locals' =
                        [cooldown  |-> BatteryConfig_cooldown(battery_config),
                         threshold |-> BatteryConfig_threshold(battery_config),
                         handler   |->
                            Handlers_battery_conservation(TuxVantage_handlers(tv))]
                   /\ diag' = diag
                   /\ \E registered \in BOOLEAN :
                        IF registered
                        THEN /\ listener' = "listening"
                             /\ started' = [started EXCEPT !.listener = TRUE]
                             /\ lock' = "write"
                             /\ pc' = "loop"
                             /\ result' = result
                        ELSE /\ RegulateFail
                             /\ UNCHANGED <<started, listener>>
    /\ batteries' = NoBatteries
    /\ UNCHANGED <<args, resolved, calls, readings>>
    /\ UNCHANGED <<hwVars, timerVars, signalChan, sigPending, sigSeen>>
    /\ UNCHANGED envVars
    /\ UNCHANGED outVars

RegulateStart ==
    RunOrHang(pc = "action" /\ args.action = "regulate" /\ ~args.install, Locks_regulate,
              RegulateStartRun)

(***************************************************************************)
(* One cycle of the loop, first half: level computed, compared with the    *)
(* threshold, conservation enabled through the handler or disabled.        *)
(***************************************************************************)
RegulateToggle ==
    /\ pc = "loop"
    /\ LET battery_level == BatteryLevelOf(charge)
       IN  /\ readings' = Append(readings, charge)
           /\ \E fail \in FailPoints :
                LET r == IF battery_level >= locals.threshold
                         THEN EnableNow("bc", locals.handler, hwstate, fail)
                         ELSE DisableNow("bc", hwstate, fail)
                IN  /\ calls' = Append(calls,
                                    IF battery_level >= locals.threshold
                                    THEN "enable" ELSE "disable")
                    /\ hwstate' = r.st
                    /\ hw' = hw \o r.log
                    /\ hwerr' = r.err
                    /\ IF r.ok
                       THEN /\ pc' = "refresh"
                            /\ UNCHANGED <<result, lock>>
                       ELSE RegulateFail
    /\ UNCHANGED <<args, cfgVars, charge, refreshErr, started, batVars, sigVars, timerVars>>
    /\ UNCHANGED envVars
    /\ UNCHANGED outVars

(***************************************************************************)
(* battery.refresh() whose error ends the loop instead of being logged.    *)
(***************************************************************************)
RegulateRefreshFatal ==
    /\ pc = "refresh"
    /\ \E refreshed \in BOOLEAN :
         /\ IF refreshed THEN charge' \in ChargeValues ELSE charge' = charge
         /\ refreshErr' = ~refreshed
         /\ IF refreshed
            THEN /\ timer' = "sleeping"
                 /\ sleepChan' = 0
                 /\ started' = [started EXCEPT !.timers = @ + 1]
                 /\ pc' = "select"
                 /\ UNCHANGED <<lock, result>>
            ELSE /\ RegulateFail
                 /\ UNCHANGED <<timerVars, started>>
    /\ UNCHANGED <<args, cfgVars, calls, readings>>
    /\ UNCHANGED <<hwVars, batVars, sigVars>>
    /\ UNCHANGED envVars
    /\ UNCHANGED outVars

(***************************************************************************)
(* Second half: battery refreshed (a failure is only logged and leaves the *)
(* handle as it was), timer of this cycle started.                         *)
(***************************************************************************)
RegulateRefresh ==
    /\ pc = "refresh"
    /\ \E refreshed \in BOOLEAN :
         /\ IF refreshed THEN charge' \in ChargeValues ELSE charge' = charge
         /\ refreshErr' = ~refreshed
    /\ timer' = "sleeping"
    /\ sleepChan' = 0
    /\ started' = [started EXCEPT !.timers = @ + 1]
    /\ pc' = "select"
    /\ UNCHANGED <<args, cfgVars, lock, result, calls, readings>>
    /\ UNCHANGED <<hwVars, batVars, sigVars>>
    /\ UNCHANGED envVars
    /\ UNCHANGED outVars

(***************************************************************************)
(* select!: the timer branch continues the loop, the signal branch enables *)
(* conservation and leaves the loop.                                       *)
(***************************************************************************)
SelectSleep ==
    /\ pc = "select"
    /\ sleepChan = 1
    /\ Len(readings) < MaxCycles
    /\ sleepChan' = 0
    /\ timer' = "none"
    /\ pc' = "loop"
    /\ UNCHANGED <<args, cfgVars, lock, result>>
    /\ UNCHANGED <<hwVars, loopVars, batVars, sigVars>>
    /\ UNCHANGED envVars
    /\ UNCHANGED outVars

SelectSignalSkipping ==
    /\ pc = "select"
    /\ signalChan = 1
    /\ signalChan' = 0
    /\ IF calls[Len(calls)] = "enable"
       THEN /\ result' = "ok"
            /\ UNCHANGED <<calls, hwVars>>
       ELSE /\ calls' = Append(calls, "enable")
            /\ \E fail \in FailPoints :
                 LET r == EnableNow("bc", locals.handler, hwstate, fail)
                 IN  /\ hwstate' = r.st
                     /\ hw' = hw \o r.log
                     /\ hwerr' = r.err
                     /\ result' = Outcome(r)
    /\ pc' = "done"
    /\ lock' = "none"
    /\ UNCHANGED <<args, cfgVars, readings, charge, refreshErr, started, batVars>>
    /\ UNCHANGED <<sigPending, sigSeen, listener, timerVars>>
    /\ UNCHANGED envVars
    /\ UNCHANGED outVars

SelectSignalSwallowing ==
    /\ pc = "select"
    /\ signalChan = 1
    /\ signalChan' = 0
    /\ calls' = Append(calls, "enable")
    /\ \E fail \in FailPoints :
         LET r == EnableNow("bc", locals.handler, hwstate, fail)
         IN  /\ hwstate' = r.st
             /\ hw' = hw \o r.log
             /\ hwerr' = r.err
             /\ result' = "ok"
    /\ pc' = "done"
    /\ lock' = "none"
    /\ UNCHANGED <<args, cfgVars, readings, charge, refreshErr, started, batVars>>
    /\ UNCHANGED <<sigPending, sigSeen, listener, timerVars>>
    /\ UNCHANGED envVars
    /\ UNCHANGED outVars

SelectSignal ==
    /\ pc = "select"
    /\ signalChan = 1
    /\ signalChan' = 0
    /\ calls' = Append(calls, "enable")
    /\ \E fail \in FailPoints :
         LET r == EnableNow("bc", locals.handler, hwstate, fail)
         IN  /\ hwstate' = r.st
             /\ hw' = hw \o r.log
             /\ hwerr' = r.err
             /\ result' = Outcome(r)
    /\ pc' = "done"
    /\ lock' = "none"
    /\ UNCHANGED <<args, cfgVars, readings, charge, refreshErr, started, batVars>>
    /\ UNCHANGED <<sigPending, sigSeen, listener, timerVars>>
    /\ UNCHANGED envVars
    /\ UNCHANGED outVars

(***************************************************************************)
(* utils::sleep: the timer thread sends once the duration has elapsed; the *)
(* send fails, and the thread panics, when the receiver is gone.           *)
(***************************************************************************)
TimerFire ==
    /\ timer = "sleeping"
    /\ pc \in {"select", "done"}
    /\ IF pc = "select"
       THEN /\ sleepChan' = 1
            /\ timer' = "sent"
       ELSE /\ sleepChan' = sleepChan
            /\ timer' = "panicked"
    /\ UNCHANGED <<pc, args, cfgVars, lock, result>>
    /\ UNCHANGED <<hwVars, loopVars, batVars, sigVars>>
    /\ UNCHANGED envVars
    /\ UNCHANGED outVars

(***************************************************************************)
(* A SIGINT/SIGTERM is delivered to the process.                           *)
(***************************************************************************)
SignalDeliver ==
    /\ listener # "none"
    /\ pc # "exited"
    /\ sigPending + sigSeen < MaxSignals
    /\ sigPending' = sigPending + 1
    /\ UNCHANGED <<pc, args, cfgVars, lock, result, signalChan, sigSeen, listener>>
    /\ UNCHANGED <<hwVars, loopVars, batVars, timerVars>>
    /\ UNCHANGED envVars
    /\ UNCHANGED outVars

ListenerForwardDropping ==
    /\ listener = "listening"
    /\ sigPending > 0
    /\ pc \in {"loop", "refresh", "select", "done"}
    /\ sigPending' = sigPending - 1
    /\ sigSeen' = sigSeen + 1
    /\ UNCHANGED <<signalChan, listener>>
    /\ UNCHANGED <<pc, args, cfgVars, lock, result>>
    /\ UNCHANGED <<hwVars, loopVars, batVars, timerVars>>
    /\ UNCHANGED envVars
    /\ UNCHANGED outVars

(***************************************************************************)
(* The listener thread forwards one signal into the bounded(1) channel:    *)
(* blocks while the channel is full, panics when the receiver is gone.     *)
(***************************************************************************)
ListenerForward ==
    /\ listener = "listening"
    /\ sigPending > 0
    /\ pc \in {"loop", "refresh", "select", "done"}
    /\ IF pc = "done"
       THEN /\ listener' = "panicked"
            /\ UNCHANGED <<signalChan, sigPending, sigSeen>>
       ELSE /\ signalChan = 0
            /\ signalChan' = 1
            /\ sigPending' = sigPending - 1
            /\ sigSeen' = sigSeen + 1
            /\ listener' = listener
    /\ UNCHANGED <<pc, args, cfgVars, lock, result>>
    /\ UNCHANGED <<hwVars, loopVars, batVars, timerVars>>
    /\ UNCHANGED envVars
    /\ UNCHANGED outVars

(***************************************************************************)
(* main: the outcome is reported and the process exits.                    *)
(***************************************************************************)
ProcessExit ==
    /\ pc = "done"
    /\ pc' = "exited"
    /\ out' = IF statics.PANIC /\ result = "err" THEN Append(out, "panic")
              ELSE IF statics.MACHINE THEN Append(out, "json")
              ELSE IF result = "err" THEN Append(out, "text")
              ELSE out
    /\ UNCHANGED <<args, cfgVars, lock, result, statics>>
    /\ UNCHANGED <<hwVars, loopVars, batVars, sigVars, timerVars>>
    /\ UNCHANGED envVars

Next ==
    \/ Startup
    \/ BatteryConservationEnable
    \/ RapidChargeEnable
    \/ BatteryConservationDisable
    \/ RapidChargeDisable
    \/ RegulateStart
    \/ RegulateToggle
    \/ RegulateRefresh
    \/ SelectSleep
    \/ SelectSignal
    \/ TimerFire
    \/ SignalDeliver
    \/ ListenerForward
    \/ ProcessExit

Spec == Init /\ [][Next]_vars

(***************************************************************************)
(* Properties of the regulation loop.                                      *)
(***************************************************************************)
Returned == pc \in {"done", "exited"}

LoopStarted == args.action = "regulate" /\ readings # <<>>

SignalTerminated == Returned /\ Len(calls) = Len(readings) + 1

SignalTaken == signalChan = 1 /\ signalChan' = 0

IssuedBy(h, hnext) == SubSeq(hnext, Len(h) + 1, Len(hnext))

\* C1: when the select takes the termination signal, the loop makes exactly
\* one further enable-conservation request in that same step, with no new
\* comparison and no disable of conservation, and then returns; after the
\* return nothing more is requested or issued.
SignalIssuesOneFinalEnable ==
    [][/\ SignalTaken =>
            /\ pc = "select"
            /\ calls' = Append(calls, "enable")
            /\ readings' = readings
            /\ \A i \in 1..Len(IssuedBy(hw, hw')) :
                 ~(IssuedBy(hw, hw')[i].feature = "bc" /\ ~IssuedBy(hw, hw')[i].on)
            /\ pc' = "done"
            /\ result' # "none"
       /\ Returned => (calls' = calls /\ hw' = hw)]_vars

\* C1 witness: the loop returned on a signal right after a cycle whose
\* comparison chose disable.
SignalAfterDisableCycle ==
    /\ SignalTerminated
    /\ readings # <<>>
    /\ calls[Len(readings)] = "disable"
    /\ calls[Len(calls)] = "enable"

\* C2: once the loop has started, every return of regulate() is preceded by
\* an enable-conservation toggle as the last hardware action.
EveryExitEndsWithEnable ==
    (Returned /\ LoopStarted) =>
        /\ hw # <<>>
        /\ hw[Len(hw)].feature = "bc"
        /\ hw[Len(hw)].on

RoundHalfAway(c) == IF c % 10 >= 5 THEN (c \div 10) + 1 ELSE c \div 10

ExpectedCall(c) ==
    IF RoundHalfAway(c) >= args.threshold THEN "enable" ELSE "disable"

ConservationToggles == {i \in 1..Len(hw) : hw[i].feature = "bc"}

\* C3: every cycle makes exactly one conservation request, enable when the
\* charge rounded half away from zero is >= the threshold and disable
\* otherwise, and every completed cycle has issued exactly one conservation
\* toggle; readings 50, 85, 50 against threshold 80 give disable, enable,
\* disable.
CycleTogglesByThreshold ==
    args.action = "regulate" =>
        /\ Len(calls) \in {Len(readings), Len(readings) + 1}
        /\ \A i \in 1..Len(readings) : calls[i] = ExpectedCall(readings[i])
        /\ pc \in {"loop", "refresh", "select"} =>
                Cardinality(ConservationToggles) = Len(readings)
        /\ (/\ Len(readings) >= 3
            /\ SubSeq(readings, 1, 3) = <<500, 850, 500>>
            /\ args.threshold = 80)
              => SubSeq(calls, 1, 3) = <<"disable", "enable", "disable">>

\* C3 witness: three completed cycles over the readings 50, 85, 50.
FixtureCyclesDone ==
    /\ pc = "select"
    /\ args.threshold = 80
    /\ readings = <<500, 850, 500>>
    /\ calls = <<"disable", "enable", "disable">>

\* C4 as stated: a loop terminated by a signal always returns Ok.
SignalExitAlwaysOk == SignalTerminated => result = "ok"

\* C4 amended: a loop terminated by a signal returns Ok exactly when the
\* terminal enable-conservation call succeeded, whatever the last comparison
\* was; a failure of that call is returned as the failure of regulate().
SignalExitOkIffEnableSucceeded ==
    SignalTerminated =>
        /\ result \in {"ok", "err"}
        /\ result = "ok" <=> hwerr = "none"
        /\ result = "ok" => hwstate.bc

\* C4 witness: signal-driven return with Ok while the handler is Error.
SignalExitOkWithErrorHandler ==
    /\ SignalTerminated
    /\ result = "ok"
    /\ locals.handler = "Error"
    /\ hwstate.bc

(***************************************************************************)
(* Properties of the enable operations.                                    *)
(***************************************************************************)
EnableActionOf(f) == IF f = "bc" THEN "bc_enable" ELSE "rc_enable"

EnableStep(f) == pc = "action" /\ args.action = EnableActionOf(f) /\ pc' = "done"

PersistedHandlerOf(f) ==
    IF f = "bc" THEN tuxvantage.handlers.battery_conservation
    ELSE tuxvantage.handlers.rapid_charging

ChosenHandler(f) ==
    IF args.op_handler # None THEN args.op_handler[1]
    ELSE IF PersistedHandlerOf(f) # None THEN PersistedHandlerOf(f)[1]
    ELSE IF args.handler # None THEN args.handler[1]
    ELSE IF tuxvantage.handlers.default # None THEN tuxvantage.handlers.default[1]
    ELSE "Switch"

\* C7: enabling a feature with handler Switch while the conflicting feature
\* is enabled issues the disable of the conflicting feature first and the
\* enable of the requested feature second; a failed disable ends the
\* operation with a failure and no enable; on success the conflicting
\* feature is off and the requested one on.
SwitchDisablesConflictFirst ==
    [][\A f \in Feature :
         (EnableStep(f) /\ ChosenHandler(f) = "Switch" /\ hwstate[Conflicting(f)]) =>
            LET issued == IssuedBy(hw, hw')
            IN  /\ Len(issued) \in {1, 2}
                /\ issued[1].feature = Conflicting(f)
                /\ ~issued[1].on
                /\ ~issued[1].ok =>
                      (Len(issued) = 1 /\ result' = "err" /\ hwstate' = hwstate)
                /\ issued[1].ok =>
                      (Len(issued) = 2 /\ issued[2].feature = f /\ issued[2].on)
                /\ result' = "ok" <=> (Len(issued) = 2 /\ issued[2].ok)
                /\ result' = "ok" => (~hwstate'[Conflicting(f)] /\ hwstate'[f])]_vars

\* C7 witness: rapid charge enabled with Switch over an enabled conservation.
SwitchedToRapidCharge ==
    /\ pc = "done"
    /\ args.action = "rc_enable"
    /\ args.op_handler = Some("Switch")
    /\ hw = <<Toggle("bc", FALSE, TRUE), Toggle("rc", TRUE, TRUE)>>
    /\ result = "ok"
    /\ hwstate = [bc |-> FALSE, rc |-> TRUE]

\* C8: enabling a feature with handler Error while the conflicting feature
\* is enabled issues no toggle, leaves the hardware state of both features
\* as it was and fails with a conflict error.
ErrorHandlerRefusesConflict ==
    [][\A f \in Feature :
         (EnableStep(f) /\ ChosenHandler(f) = "Error" /\ hwstate[Conflicting(f)]) =>
            /\ hw' = hw
            /\ hwstate' = hwstate
            /\ hwerr' = "conflict"
            /\ result' = "err"]_vars

\* C8 witness: rapid charge refused with a conflict error.
RapidChargeRefused ==
    /\ pc = "done"
    /\ args.action = "rc_enable"
    /\ args.op_handler = Some("Error")
    /\ hwerr = "conflict"
    /\ hw = <<>>
    /\ hwstate.bc
    /\ result = "err"

\* C9: when the conflicting feature is disabled, an enable issues exactly one
\* toggle, the enable of the requested feature, leaves the conflicting
\* feature disabled, and its outcome is that of this one toggle, for every
\* handler and for both features.
NoConflictEnablesDirectly ==
    [][\A f \in Feature :
         (EnableStep(f) /\ ~hwstate[Conflicting(f)]) =>
            LET issued == IssuedBy(hw, hw')
            IN  /\ Len(issued) = 1
                /\ issued[1].feature = f
                /\ issued[1].on
                /\ result' = "ok" <=> issued[1].ok
                /\ ~hwstate'[Conflicting(f)]
                /\ hwstate'[f] = (hwstate[f] \/ issued[1].ok)]_vars

\* C9 witness: conservation enabled with handler Error, rapid charge off.
EnabledWithoutConflict ==
    /\ pc = "done"
    /\ args.action = "bc_enable"
    /\ args.op_handler = Some("Error")
    /\ hw = <<Toggle("bc", TRUE, TRUE)>>
    /\ hwstate = [bc |-> TRUE, rc |-> FALSE]
    /\ result = "ok"

(***************************************************************************)
(* Configuration store on its own: a persisted configuration of any shape, *)
(* the overrides written by startup and by the entry of each operation,    *)
(* and a reader that calls every resolution method on the store.           *)
(***************************************************************************)
ResolveAll(tv) ==
    LET handlers == TuxVantage_handlers(tv)
        battery_config == TuxVantage_battery_config(tv)
    IN  [profile              |-> TuxVantage_profile(tv),
         machine              |-> TuxVantage_machine(tv),
         panic                |-> TuxVantage_panic(tv),
         backtrace            |-> TuxVantage_backtrace(tv),
         handlers             |-> handlers,
         default_handler      |-> Handlers_default(handlers),
         battery_conservation |-> Handlers_battery_conservation(handlers),
         rapid_charging       |-> Handlers_rapid_charging(handlers),
         battery_config       |-> battery_config,
         matches              |-> BatteryConfig_matches(battery_config),
         threshold            |-> BatteryConfig_threshold(battery_config),
         cooldown             |-> BatteryConfig_cooldown(battery_config)]

Resolve ==
    /\ pc \in {"start", "action", "loop", "done"}
    /\ resolved' = ResolveAll(tuxvantage)
    /\ pc' = "resolved"
    /\ UNCHANGED <<args, tuxvantage, locals, lock, result>>
    /\ UNCHANGED <<hwVars, loopVars, batVars, sigVars, timerVars>>
    /\ UNCHANGED envVars
    /\ UNCHANGED outVars

ConfigActions == {"bc_enable", "rc_enable", "regulate"}

ConfigArgsOf(action) ==
    [machine : Option({"Always"}), profile : Option({"Ideapad15Amd"}),
     handler : Option({"Error"}),
     action : {action},
     panic : {FALSE}, backtrace : {Backtrace_DEFAULT},
     skip_consistency_checks : {FALSE}, install : {FALSE},
     op_handler : IF action \in EnableActions THEN Option({"Error"}) ELSE {None},
     threshold : IF action = "regulate" THEN {BatteryLevel_DEFAULT, 70}
                 ELSE {BatteryLevel_DEFAULT},
     cooldown : {CoolDown_DEFAULT},
     infallible : {FALSE},
     matches : IF action = "regulate" THEN Option({Index(0)}) ELSE {None}]

ConfigStores ==
    {[TuxVantage_DEFAULT EXCEPT !.profile = pr, !.machine = ma, !.handlers = ha,
                                !.battery = ba] :
        pr \in Option({"Ideapad15IIL05"}),
        ma \in Option({"Never"}),
        ha \in [default : Option({"Ignore"}),
                battery_conservation : Option({"Ignore"}),
                rapid_charging : Option({"Ignore"})],
        ba \in [matches : Option({Vendor("A")}), infallible : {FALSE},
                threshold : Option({50}), cooldown : Option({30})]}

InitConfig ==
    /\ InitProcess
    /\ InitEnv
    /\ args \in UNION {ConfigArgsOf(a) : a \in ConfigActions}
    /\ tuxvantage \in ConfigStores
    /\ hwstate = [f \in Feature |-> FALSE]
    /\ batteries = [manager_ok |-> TRUE, entries |-> <<BatteryEntry(Some("A"))>>]

NextConfig ==
    \/ Startup
    \/ BatteryConservationEnable
    \/ RapidChargeEnable
    \/ RegulateStart
    \/ Resolve

SpecConfig == InitConfig /\ [][NextConfig]_vars

(***************************************************************************)
(* Properties of the resolution methods.                                   *)
(***************************************************************************)
Tier(o, p) == IF o # None THEN o ELSE p

Tier3(o, p, d) == IF o # None THEN o[1] ELSE IF p # None THEN p[1] ELSE d

\* C5: every optional field (profile, machine mode, global handler, the
\* per-feature handler fields, threshold, cooldown, predicate) is merged as
\* the override if present, else the persisted value if present, else the
\* compiled-in default (no profile, Auto, Switch, no per-feature handler, 80,
\* 60, First), and each merged value is a function of that field's own two
\* layers only.
ThreeTierPerField ==
    pc = "resolved" =>
        LET o == tuxvantage.overrides
            p == tuxvantage
        IN  /\ resolved.profile = Tier(o.profile, p.profile)
            /\ resolved.machine = Tier3(o.machine, p.machine, "Auto")
            /\ resolved.default_handler =
                  Tier3(o.handlers.default, p.handlers.default, "Switch")
            /\ resolved.handlers.battery_conservation =
                  Tier(o.handlers.battery_conservation,
                       p.handlers.battery_conservation)
            /\ resolved.handlers.rapid_charging =
                  Tier(o.handlers.rapid_charging, p.handlers.rapid_charging)
            /\ resolved.threshold =
                  Tier3(o.battery.threshold, p.battery.threshold, 80)
            /\ resolved.cooldown =
                  Tier3(o.battery.cooldown, p.battery.cooldown, 60)
            /\ resolved.matches =
                  Tier3(o.battery.matches, p.battery.matches, First)

\* C5 witness: a persisted threshold and cooldown resolved under an absent
\* override while the machine override beats the persisted machine mode.
PersistedThresholdResolved ==
    /\ pc = "resolved"
    /\ tuxvantage.overrides.battery.threshold = None
    /\ tuxvantage.battery.threshold = Some(50)
    /\ resolved.threshold = 50
    /\ tuxvantage.overrides.battery.cooldown = None
    /\ tuxvantage.battery.cooldown = Some(30)
    /\ resolved.cooldown = 30
    /\ tuxvantage.overrides.machine = Some("Always")
    /\ tuxvantage.machine = Some("Never")
    /\ resolved.machine = "Always"

FirstPresent(o1, o2, o3, o4, d) ==
    IF o1 # None THEN o1[1]
    ELSE IF o2 # None THEN o2[1]
    ELSE IF o3 # None THEN o3[1]
    ELSE IF o4 # None THEN o4[1]
    ELSE d

RECURSIVE EntryLists(_)
EntryLists(n) ==
    IF n = 0 THEN {<<>>}
    ELSE LET shorter == EntryLists(n - 1)
         IN  shorter \cup {Append(l, x) : l \in {s \in shorter : Len(s) = n - 1},
                                          x \in Entries}

BatteryArgsOf(action) ==
    [machine : {None}, profile : {None}, handler : {None},
     action : {action},
     panic : {FALSE}, backtrace : {Backtrace_DEFAULT},
     skip_consistency_checks : {FALSE}, install : {FALSE}, op_handler : {None},
     threshold : {BatteryLevel_DEFAULT}, cooldown : {CoolDown_DEFAULT},
     infallible : IF action = "regulate" THEN BOOLEAN ELSE {FALSE},
     matches : IF action = "regulate"
               THEN Option({First, Index(1), Vendor("B")}) ELSE {None}]

BatteryStores ==
    {[TuxVantage_DEFAULT EXCEPT !.battery.matches = m] :
        m \in Option({Vendor("A")})}

InitBattery ==
    /\ InitProcess
    /\ InitEnv
    /\ args \in UNION {BatteryArgsOf(a) : a \in Actions}
    /\ tuxvantage \in BatteryStores
    /\ hwstate = [f \in Feature |-> FALSE]
    /\ batteries \in IF args.action = "regulate"
                     THEN EnumerationsOf(EntryLists(MaxBatteries))
                     ELSE {NoBatteries}

SpecBattery == InitBattery /\ [][Next]_vars

ConfiguredMatches ==
    IF args.matches # None THEN args.matches[1]
    ELSE IF tuxvantage.battery.matches # None THEN tuxvantage.battery.matches[1]
    ELSE First

NoBatteryMatches(m, entries) ==
    \A i \in 1..Len(entries) :
        entries[i].ok => ~BatteryMatches_matches(m, i - 1, entries[i])

\* C10: when the configured predicate matches no enumerated battery, the
\* regulate step returns an error with no enable/disable call issued and no
\* signal listener or timer started, whether or not the diagnostic listing
\* succeeds, and nothing is issued or started after that return.
NoMatchFailsBeforeLoop ==
    [][ /\ ( /\ pc = "action"
             /\ args.action = "regulate"
             /\ NoBatteryMatches(ConfiguredMatches, batteries.entries) )
           => ( /\ pc' = "done"
                /\ result' = "err"
                /\ calls' = <<>>
                /\ hw' = <<>>
                /\ started' = NoStarted
                /\ listener' = "none"
                /\ timer' = "none" )
        /\ ( diag # "none" )
           => ( /\ calls' = <<>>
                /\ hw' = <<>>
                /\ started' = NoStarted ) ]_vars

\* C10 witness: regulate has returned its error although the diagnostic
\* listing of batteries failed, with nothing issued and nothing started.
NoMatchFailedWithBrokenListing ==
    /\ pc = "done"
    /\ args.action = "regulate"
    /\ diag = "failed"
    /\ result = "err"
    /\ calls = <<>>
    /\ hw = <<>>
    /\ started = NoStarted

(***************************************************************************)
(* Battery search on its own: BatteryConfig::get applied to the merged     *)
(* battery configuration for every enumeration of at most MaxBatteries     *)
(* entries, every predicate and both layers of the infallible flag.        *)
(***************************************************************************)
GetBattery ==
    /\ pc \in {"start", "action"}
    /\ resolved' = BatteryConfig_get(
                      TuxVantage_battery_config(SetBatteryOverride(tuxvantage, args)),
                      batteries)
    /\ pc' = "found"
    /\ UNCHANGED <<args, tuxvantage, locals, lock, result>>
    /\ UNCHANGED <<hwVars, loopVars, batVars, sigVars, timerVars>>
    /\ UNCHANGED envVars
    /\ UNCHANGED outVars

FindStores ==
    {[TuxVantage_DEFAULT EXCEPT !.battery.matches = m, !.battery.infallible = i] :
        m \in Option({Vendor("A")}), i \in BOOLEAN}

InitFind ==
    /\ InitProcess
    /\ InitEnv
    /\ args \in BatteryArgsOf("regulate")
    /\ tuxvantage \in FindStores
    /\ hwstate = [f \in Feature |-> FALSE]
    /\ batteries \in EnumerationsOf(EntryLists(MaxBatteries))

NextFind ==
    \/ Startup
    \/ GetBattery

SpecFind == InitFind /\ [][NextFind]_vars

ConfiguredInfallible == args.infallible \/ tuxvantage.battery.infallible

MatchingEntries(m, entries) ==
    {i \in 1..Len(entries) :
        entries[i].ok /\ BatteryMatches_matches(m, i - 1, entries[i])}

FirstOf(S) == CHOOSE i \in S : \A j \in S : i <= j

ErrorsBefore(entries, n) == {i - 1 : i \in {j \in 1..(n - 1) : ~entries[j].ok}}

ListsInOrder(seq, S) ==
    /\ Len(seq) = Cardinality(S)
    /\ {seq[k] : k \in 1..Len(seq)} = S
    /\ \A k \in 1..(Len(seq) - 1) : seq[k] < seq[k + 1]

\* C11: with infallible set the search never fails on an errored entry: the
\* errored entries met before the match are collected in order and the first
\* later entry satisfying the predicate is returned; with infallible unset an
\* errored entry anywhere in the enumeration fails the whole search with no
\* battery returned.
InfallibleCollectsFallibleFails ==
    (pc = "found" /\ batteries.manager_ok) =>
        LET es == batteries.entries
            hits == MatchingEntries(ConfiguredMatches, es)
            stop == IF hits = {} THEN Len(es) + 1 ELSE FirstOf(hits)
        IN  IF ConfiguredInfallible
            THEN /\ resolved.ok
                 /\ resolved.battery = IF hits = {} THEN None ELSE Some(es[stop])
                 /\ ListsInOrder(resolved.errors, ErrorsBefore(es, stop))
            ELSE IF \E i \in 1..Len(es) : ~es[i].ok
            THEN ~resolved.ok /\ resolved.battery = None
            ELSE /\ resolved.ok
                 /\ resolved.battery = IF hits = {} THEN None ELSE Some(es[stop])
                 /\ resolved.errors = <<>>

\* C11 witness: an infallible search stepped over an errored first entry,
\* collected it and returned the matching battery after it.
InfallibleSkippedErroredEntry ==
    /\ pc = "found"
    /\ ConfiguredInfallible
    /\ batteries.manager_ok
    /\ batteries.entries = <<ErrorEntry, BatteryEntry(Some("B"))>>
    /\ resolved.ok
    /\ resolved.errors = <<0>>
    /\ resolved.battery = Some(BatteryEntry(Some("B")))

(***************************************************************************)
(* Profile resolution at startup: every list of at most MaxProfiles        *)
(* profile files, product identifiers matching built-in and external       *)
(* profiles or none, and profile names in either layer.                    *)
(***************************************************************************)
MaxProfiles == 2

ExternalProfiles ==
    {Profile("Ideapad15IIL05", {"X1"}, FALSE),
     Profile("custom", {"X1"}, FALSE),
     Profile("custom", {"X2"}, FALSE),
     Profile("other", {"X2", "81YQ"}, FALSE)}

ProfileFiles == {BrokenFile} \cup {ProfileFile(q) : q \in ExternalProfiles}

RECURSIVE FileLists(_)
FileLists(n) ==
    IF n = 0 THEN {<<>>}
    ELSE LET shorter == FileLists(n - 1)
         IN  shorter \cup {Append(l, x) : l \in {s \in shorter : Len(s) = n - 1},
                                          x \in ProfileFiles}

ProfileArgs ==
    [machine : {None},
     profile : Option({"custom", "Ideapad15IIL05", "missing"}),
     handler : {None}, action : {"bc_disable", "profiles_get"},
     panic : {FALSE}, backtrace : {Backtrace_DEFAULT},
     skip_consistency_checks : {FALSE}, install : {FALSE},
     op_handler : {None},
     threshold : {BatteryLevel_DEFAULT}, cooldown : {CoolDown_DEFAULT},
     infallible : {FALSE}, matches : {None}]

InitProfiles ==
    /\ InitProcess
    /\ args \in ProfileArgs
    /\ tuxvantage \in {[TuxVantage_DEFAULT EXCEPT !.profile = pr] :
                         pr \in Option({"other"})}
    /\ hwstate = [f \in Feature |-> FALSE]
    /\ batteries = NoBatteries
    /\ host \in {[Host_DEFAULT EXCEPT !.product = pd, !.profile_files = fl] :
                    pd \in Option({"81YK", "81YQ", "X1", "X2", "unknown"}),
                    fl \in FileLists(MaxProfiles)}
    /\ consistency = Consistency_DEFAULT
    /\ ledger = Consistency_DEFAULT

NextProfiles ==
    \/ Startup
    \/ BatteryConservationDisable
    \/ ProcessExit

SpecProfiles == InitProfiles /\ [][NextProfiles]_vars

ConfiguredProfile ==
    IF args.profile # None THEN args.profile ELSE tuxvantage.profile

SearchPath ==
    <<Profile("Ideapad15IIL05", {"81YK"}, TRUE),
      Profile("Ideapad15Amd", {"81YQ"}, TRUE)>> \o profiles

StartupResolved ==
    /\ pc # "start"
    /\ cell
    /\ args.action \notin ProfileActions

StartupFailed == pc \in {"done", "exited"} /\ result = "err" /\ context = None

\* C12: with a profile name configured the active profile is the first
\* profile of that exact name in the built-ins (Ideapad15IIL05, Ideapad15Amd)
\* followed by the external profiles in load order, so a built-in wins a name
\* collision; with no profile of that name startup fails and no hardware
\* context is created.
NamedProfileFirstMatch ==
    (StartupResolved /\ ConfiguredProfile # None) =>
        LET hits == {i \in 1..Len(SearchPath) :
                        SearchPath[i].name = ConfiguredProfile[1]}
        IN  IF hits = {} THEN StartupFailed
            ELSE context = Some(SearchPath[FirstOf(hits)])

\* C12 witness: an external profile carries the name of a built-in one and
\* the built-in profile became the active profile.
BuiltInWinsNameCollision ==
    /\ pc = "action"
    /\ ConfiguredProfile = Some("Ideapad15IIL05")
    /\ \E i \in 1..Len(profiles) : profiles[i].name = "Ideapad15IIL05"
    /\ context = Some(Profile("Ideapad15IIL05", {"81YK"}, TRUE))

\* C13: with no profile name configured the active profile is the first of
\* the search path (built-ins, then externals) whose expected product names
\* contain the host product identifier, no profile after it is examined, and
\* startup fails when none matches.
AutoDetectFirstMatchLazily ==
    (StartupResolved /\ ConfiguredProfile = None) =>
        LET hits == {i \in 1..Len(SearchPath) :
                        /\ host.product # None
                        /\ host.product[1] \in SearchPath[i].products}
        IN  IF hits = {} THEN StartupFailed
            ELSE /\ context = Some(SearchPath[FirstOf(hits)])
                 /\ evaluated = SubSeq(SearchPath, 1, FirstOf(hits))

\* C13 witness: the product identifier matches only the second profile of a
\* longer search path; it was chosen and the profiles after it were not
\* examined.
SecondProfileDetected ==
    /\ pc = "action"
    /\ ConfiguredProfile = None
    /\ host.product = Some("81YQ")
    /\ profiles = <<Profile("custom", {"X1"}, FALSE)>>
    /\ context = Some(SearchPath[2])
    /\ evaluated = SubSeq(SearchPath, 1, 2)
    /\ Len(SearchPath) = 3

(***************************************************************************)
(* config::initialize on its own: called before, inside and after startup, *)
(* while the files on the host change between the calls.                   *)
(***************************************************************************)
MaxInits == 3

InitFiles ==
    {BrokenFile, ProfileFile(Profile("custom", {"X1"}, FALSE)),
     ProfileFile(Profile("other", {"X2", "81YQ"}, FALSE))}

RECURSIVE InitFileLists(_)
InitFileLists(n) ==
    IF n = 0 THEN {<<>>}
    ELSE LET shorter == InitFileLists(n - 1)
         IN  shorter \cup {Append(l, x) : l \in {s \in shorter : Len(s) = n - 1},
                                          x \in InitFiles}

ConfigFileStates == {"ok", "uncreatable", "unreadable", "unparsable"}

Initialize ==
    /\ pc \in {"start", "action"}
    /\ inits < MaxInits
    /\ LET init == Config_initialize(cell, host, profiles, loads)
       IN  /\ cell' = init.cell
           /\ profiles' = init.profiles
           /\ inits' = inits + 1
           /\ initErrors' = Some([ok |-> init.ok, errors |-> init.errors])
           /\ loads' = init.loads
    /\ UNCHANGED <<pc, args, cfgVars, lock, result>>
    /\ UNCHANGED <<host, context, evaluated, consistency, ledger>>
    /\ UNCHANGED <<hwVars, loopVars, batVars, sigVars, timerVars>>
    /\ UNCHANGED outVars

HostChange ==
    /\ pc \in {"start", "action"}
    /\ \/ \E f \in ConfigFileStates : host' = [host EXCEPT !.config_file = f]
       \/ \E d \in BOOLEAN : host' = [host EXCEPT !.profiles_dir = d]
       \/ \E l \in InitFileLists(MaxProfiles) :
             host' = [host EXCEPT !.profile_files = l]
    /\ UNCHANGED <<pc, args, cfgVars, lock, result>>
    /\ UNCHANGED <<cell, inits, initErrors, loads, profiles, context, evaluated,
                   consistency, ledger>>
    /\ UNCHANGED <<hwVars, loopVars, batVars, sigVars, timerVars>>
    /\ UNCHANGED outVars

InitInit ==
    /\ InitProcess
    /\ args \in [machine : {None}, profile : {None},
                 handler : Option({"Error"}), action : {"bc_disable"},
                 panic : {FALSE}, backtrace : {Backtrace_DEFAULT},
                 skip_consistency_checks : {FALSE}, install : {FALSE},
                 op_handler : {None},
                 threshold : {BatteryLevel_DEFAULT}, cooldown : {CoolDown_DEFAULT},
                 infallible : {FALSE}, matches : {None}]
    /\ tuxvantage = TuxVantage_DEFAULT
    /\ hwstate = [f \in Feature |-> FALSE]
    /\ batteries = NoBatteries
    /\ host \in {[Host_DEFAULT EXCEPT !.config_file = f, !.profiles_dir = d,
                                      !.profile_files = l] :
                    f \in ConfigFileStates, d \in BOOLEAN,
                    l \in InitFileLists(MaxProfiles)}
    /\ consistency = Consistency_DEFAULT
    /\ ledger = Consistency_DEFAULT

NextInit ==
    \/ Initialize
    \/ Startup
    \/ HostChange

SpecInit == InitInit /\ [][NextInit]_vars

InitializeCalled == inits' = inits + 1

Returned_Ok(errors) == Some([ok |-> TRUE, errors |-> errors])

\* C14: once the store is installed, every later call of config::initialize
\* loads nothing, returns an empty error list and leaves the installed store
\* (its profiles, its configuration and the overrides written since) as it
\* was; the installed value is never replaced.
InitializeOnlyOnce ==
    [][ (cell /\ InitializeCalled) =>
            /\ cell'
            /\ loads' = loads
            /\ profiles' = profiles
            /\ initErrors' = Returned_Ok(<<>>)
            /\ pc' = pc => tuxvantage' = tuxvantage ]_vars

\* C14 witness: a third call of config::initialize returned an empty list
\* after startup wrote an override and the files changed; one load in all.
InitializedOnceCalledThrice ==
    /\ cell
    /\ inits = 3
    /\ loads = 1
    /\ initErrors = Returned_Ok(<<>>)
    /\ pc = "action"
    /\ tuxvantage.overrides.handlers.default = Some("Error")
    /\ host.config_file = "unparsable"
    /\ Len(host.profile_files) # Len(profiles)

RECURSIVE GoodProfiles(_)
GoodProfiles(files) ==
    IF files = <<>> THEN <<>>
    ELSE (IF Head(files).ok THEN <<Head(files).profile[1]>> ELSE <<>>)
            \o GoodProfiles(Tail(files))

\* C15: a call on an empty cell fails and leaves the cell empty when the
\* persisted configuration file cannot be created, read or parsed; when it
\* can, every unreadable or unparsable profile file is reported in the
\* returned list and skipped, every other profile file is loaded in order,
\* and the call succeeds.
InitializeFatalAndNonFatal ==
    [][ (~cell /\ InitializeCalled) =>
            /\ host.config_file # "ok" =>
                  /\ ~cell'
                  /\ ~initErrors'[1].ok
                  /\ profiles' = profiles
            /\ (host.config_file = "ok" /\ host.profiles_dir) =>
                  /\ cell'
                  /\ initErrors'[1].ok
                  /\ ListsInOrder(initErrors'[1].errors,
                                  {i \in 1..Len(host.profile_files) :
                                      ~host.profile_files[i].ok})
                  /\ profiles' = GoodProfiles(host.profile_files) ]_vars

\* C15 witness: the first profile file was broken, the call succeeded with
\* that one error and the profile after it was loaded.
BrokenProfileSkipped ==
    /\ cell
    /\ inits = 1
    /\ host.profile_files =
          <<BrokenFile, ProfileFile(Profile("custom", {"X1"}, FALSE))>>
    /\ initErrors = Returned_Ok(<<1>>)
    /\ profiles = <<Profile("custom", {"X1"}, FALSE)>>

(***************************************************************************)
(* The consistency record across whole executions: any recorded state, the *)
(* executable path known or not, checks skipped or not, every action and   *)
(* the install request.                                                    *)
(***************************************************************************)
LedgerArgsOf(action) ==
    [machine : {None}, profile : {None}, handler : {None},
     action : {action},
     panic : {FALSE}, backtrace : {Backtrace_DEFAULT},
     skip_consistency_checks : BOOLEAN,
     install : IF action = "regulate" THEN BOOLEAN ELSE {FALSE},
     op_handler : {None},
     threshold : {BatteryLevel_DEFAULT}, cooldown : {CoolDown_DEFAULT},
     infallible : {FALSE}, matches : {None}]

ConsistencyRecords ==
    [regulator_service_installed : BOOLEAN, last_exe : Option({"exe1", "exe2"})]

InitLedger ==
    /\ InitProcess
    /\ args \in UNION {LedgerArgsOf(a) : a \in Actions}
    /\ tuxvantage = TuxVantage_DEFAULT
    /\ hwstate = [f \in Feature |-> FALSE]
    /\ batteries = IF args.action = "regulate"
                   THEN [manager_ok |-> TRUE,
                         entries |-> <<BatteryEntry(Some("A"))>>]
                   ELSE NoBatteries
    /\ host \in {[Host_DEFAULT EXCEPT !.current_exe = x] : x \in Option({"exe1"})}
    /\ consistency \in ConsistencyRecords
    /\ ledger = consistency

NextLedger ==
    \/ Next
    \/ RegulateInstall

SpecLedger == InitLedger /\ [][NextLedger]_vars

InstallStep == pc = "action" /\ args.action = "regulate" /\ args.install

\* C16 as stated: both fields of the consistency record are modified only by
\* the install operation; every other execution, the startup consistency
\* check included, leaves them unchanged.
RecordChangedOnlyByInstall ==
    [][ consistency' # consistency => InstallStep ]_vars

\* C16 amended: the installed flag is modified only by the install
\* operation; the last executable path is modified by the install operation
\* and by the startup consistency check, which sets it to the current
\* executable path when no path was recorded; nothing else modifies the
\* record.
RecordChangedByInstallOrFirstStartup ==
    [][ consistency' # consistency =>
            \/ InstallStep
            \/ /\ pc = "start"
               /\ ~args.skip_consistency_checks
               /\ consistency.last_exe = None
               /\ consistency' = [consistency EXCEPT !.last_exe = host.current_exe]
      ]_vars

\* C16 witness: startup found no recorded path and recorded the current one
\* in the store, leaving the flag and the record on disk as they were.
StartupRecordedPath ==
    /\ pc = "action"
    /\ ~args.install
    /\ consistency.last_exe = Some("exe1")
    /\ ledger.last_exe = None
    /\ consistency.regulator_service_installed = ledger.regulator_service_installed

(***************************************************************************)
(* BatteryLevel: construction from a u8, Display ("{}%") and FromStr       *)
(* (trim_end_matches('%'), parse::<u8>, new).  Text is a sequence of       *)
(* characters.                                                             *)
(***************************************************************************)
Digits == <<"0", "1", "2", "3", "4", "5", "6", "7", "8", "9">>

DigitChars == {Digits[i] : i \in 1..10}

DigitValue(c) == (CHOOSE i \in 1..10 : Digits[i] = c) - 1

RECURSIVE ToDecimal(_)
ToDecimal(n) ==
    IF n < 10 THEN <<Digits[n + 1]>>
    ELSE Append(ToDecimal(n \div 10), Digits[(n % 10) + 1])

BatteryLevel_RANGE == 0..100

BatteryLevel_new_exclusive(level) ==
    IF level \in BatteryLevel_RANGE \ {100} THEN Some(level) ELSE None

BatteryLevel_new(level) ==
    IF level \in BatteryLevel_RANGE THEN Some(level) ELSE None

BatteryLevel_fmt(v) == Append(ToDecimal(v), "%")

RECURSIVE TrimEndMatches(_, _)
TrimEndMatches(s, c) ==
    IF s # <<>> /\ s[Len(s)] = c
    THEN TrimEndMatches(SubSeq(s, 1, Len(s) - 1), c)
    ELSE s

RECURSIVE ParseDigits(_, _)
ParseDigits(s, acc) ==
    IF s = <<>> THEN Some(acc)
    ELSE IF Head(s) \notin DigitChars THEN None
    ELSE LET v == acc * 10 + DigitValue(Head(s))
         IN  IF v > U8Max THEN None ELSE ParseDigits(Tail(s), v)

ParseU8(s) ==
    LET body == IF s # <<>> /\ Head(s) = "+" THEN Tail(s) ELSE s
    IN  IF body = <<>> THEN None ELSE ParseDigits(body, 0)

BatteryLevel_from_str(s) ==
    LET n == ParseU8(TrimEndMatches(s, "%"))
    IN  IF n = None THEN None ELSE BatteryLevel_new(n[1])

MaxText == 3

TextChars == {"0", "1", "9", "%", "x"}

RECURSIVE ShortTexts(_)
ShortTexts(n) ==
    IF n = 0 THEN {<<>>}
    ELSE LET shorter == ShortTexts(n - 1)
         IN  shorter \cup {Append(t, c) : t \in {s \in shorter : Len(s) = n - 1},
                                          c \in TextChars}

Texts ==
    ShortTexts(MaxText)
        \cup {ToDecimal(k) : k \in 90..300}
        \cup {Append(ToDecimal(k), "%") : k \in 90..300}
        \cup {<<"+", "5">>, <<"-", "5">>, <<"+">>, <<"0", "0", "7", "%", "%">>}

InitLevel ==
    /\ InitProcess
    /\ InitEnv
    /\ args \in [level : 0..U8Max, text : {<<>>}]
                    \cup [level : {BatteryLevel_DEFAULT, 100}, text : Texts]
    /\ tuxvantage = TuxVantage_DEFAULT
    /\ hwstate = [f \in Feature |-> FALSE]
    /\ batteries = NoBatteries

BatteryLevelApply ==
    /\ pc = "start"
    /\ LET made == BatteryLevel_new(args.level)
           shown == IF made = None THEN None ELSE Some(BatteryLevel_fmt(made[1]))
       IN  resolved' =
             [made |-> made,
              shown |-> shown,
              reparsed |-> IF shown = None THEN None
                           ELSE BatteryLevel_from_str(shown[1]),
              parsed |-> BatteryLevel_from_str(args.text)]
    /\ pc' = "levelled"
    /\ UNCHANGED <<args, tuxvantage, locals, lock, result>>
    /\ UNCHANGED <<hwVars, loopVars, batVars, sigVars, timerVars, envVars>>
    /\ UNCHANGED outVars

SpecLevel == InitLevel /\ [][BatteryLevelApply]_vars

Numeral(k) ==
    IF k < 10 THEN <<Digits[k + 1]>>
    ELSE IF k < 100 THEN <<Digits[(k \div 10) + 1], Digits[(k % 10) + 1]>>
    ELSE <<Digits[(k \div 100) + 1], Digits[((k \div 10) % 10) + 1],
           Digits[(k % 10) + 1]>>

NumberAbove100(t) ==
    \E k \in 101..999 : t = Numeral(k) \/ t = Numeral(k) \o <<"%">>

NonNumber(t) ==
    \/ \E i \in 1..Len(t) : t[i] \notin DigitChars \cup {"%", "+"}
    \/ \A i \in 1..Len(t) : t[i] \notin DigitChars

\* C17: BatteryLevel::new(n) succeeds exactly for 0 <= n <= 100 over all
\* 8-bit n; the display form of a valid level v is "v%" and parses back to
\* the same v; a number above 100 or a non-number does not parse.
BatteryLevelRoundTrip ==
    pc = "levelled" =>
        /\ resolved.made # None <=> (0 <= args.level /\ args.level <= 100)
        /\ resolved.made # None =>
              /\ resolved.made = Some(args.level)
              /\ resolved.shown = Some(Numeral(args.level) \o <<"%">>)
              /\ resolved.reparsed = Some(args.level)
        /\ (NumberAbove100(args.text) \/ NonNumber(args.text)) =>
              resolved.parsed = None

\* C17 witness: level 100 was constructed, shown as "100%" and parsed back,
\* while the text "101%" was refused.
TopLevelRoundTrips ==
    /\ pc = "levelled"
    /\ args.level = 100
    /\ resolved.shown = Some(<<"1", "0", "0", "%">>)
    /\ resolved.reparsed = Some(100)
    /\ args.text = <<"1", "0", "1", "%">>
    /\ resolved.parsed = None

\* C18: whenever the regulation loop waits in the select for the cooldown
\* or a termination signal, the main thread does not hold the write guard of
\* the configuration store.
SelectWaitsWithoutWriteGuard ==
    pc = "select" => lock # "write"

(***************************************************************************)
(* app::profiles: get, get_default, set, set_default, remove, json.        *)
(***************************************************************************)
ProfileDone ==
    /\ pc' = "done"
    /\ lock' = "none"
    /\ out' = IF result' = "ok" /\ ~Machine_get(TuxVantage_machine(tuxvantage), host)
              THEN Append(out, "text") ELSE out
    /\ UNCHANGED <<args, locals, statics>>
    /\ UNCHANGED <<hwVars, loopVars, batVars, sigVars, timerVars>>
    /\ UNCHANGED <<cell, inits, initErrors, loads, profiles, context, evaluated,
                   consistency, ledger>>

NamedIndex(path, name) ==
    FirstIndex({k \in 1..Len(path) : path[k].name = name})

FileIndex(files, name) ==
    FirstIndex({k \in 1..Len(files) :
                  files[k].ok /\ files[k].profile[1].name = name})

RemoveAt(seq, i) == SubSeq(seq, 1, i - 1) \o SubSeq(seq, i + 1, Len(seq))

ProfilesGetRun ==
    /\ pc = "action"
    /\ args.action = "profiles_get"
    /\ LET path == Profiles_with_built_ins(profiles)
           i == IF args.name = None THEN 0 ELSE NamedIndex(path, args.name[1])
       IN  IF args.name # None /\ i = 0
           THEN result' = "err" /\ resolved' = resolved
           ELSE /\ result' = "ok"
                /\ resolved' = Some(IF args.name = None THEN path ELSE <<path[i]>>)
    /\ ProfileDone
    /\ UNCHANGED <<tuxvantage, host>>

ProfilesGet ==
    RunOrHang(pc = "action" /\ args.action = "profiles_get", Locks_get,
              ProfilesGetRun)

ProfilesGetDefaultRun ==
    /\ pc = "action"
    /\ args.action = "profiles_get_default"
    /\ LET default_profile == Config_default_profile(tuxvantage, profiles)
       IN  IF default_profile = None \/ ~default_profile[1].ok
           THEN result' = "err" /\ resolved' = resolved
           ELSE LET path == Profiles_with_built_ins(profiles)
                    i == NamedIndex(path, default_profile[1].profile[1].name)
                IN  result' = "ok" /\ resolved' = Some(<<path[i]>>)
    /\ ProfileDone
    /\ UNCHANGED <<tuxvantage, host>>

ProfilesGetDefault ==
    RunOrHang(pc = "action" /\ args.action = "profiles_get_default",
              Locks_get_default, ProfilesGetDefaultRun)

ProfilesSetRun ==
    /\ pc = "action"
    /\ args.action = "profiles_set"
    /\ \E contents \in {"unreadable", "invalid", "unwritable", "valid"} :
          LET path == Profiles_with_built_ins(profiles)
              i == NamedIndex(path, args.name[1])
              written == ProfileFile(Profile(args.name[1], {"X2"}, FALSE))
              at == FileIndex(host.profile_files, args.name[1])
          IN  IF \/ i # 0 /\ path[i].builtin
                 \/ i = 0 /\ ~args.create_new
                 \/ contents # "valid"
              THEN result' = "err" /\ host' = host
              ELSE /\ result' = "ok"
                   /\ host' = [host EXCEPT !.profile_files =
                                  IF at = 0 THEN Append(@, written)
                                  ELSE [@ EXCEPT ![at] = written]]
    /\ ProfileDone
    /\ UNCHANGED <<tuxvantage, resolved>>

ProfilesSet ==
    RunOrHang(pc = "action" /\ args.action = "profiles_set", Locks_set,
              ProfilesSetRun)

ProfilesSetDefaultRun ==
    /\ pc = "action"
    /\ args.action = "profiles_set_default"
    /\ \E dumped \in BOOLEAN :
          IF NamedIndex(Profiles_with_built_ins(profiles), args.name[1]) = 0
          THEN result' = "err" /\ tuxvantage' = tuxvantage
          ELSE /\ tuxvantage' = [tuxvantage EXCEPT !.profile = args.name]
               /\ result' = IF dumped THEN "ok" ELSE "err"
    /\ ProfileDone
    /\ UNCHANGED <<resolved, host>>

ProfilesSetDefault ==
    RunOrHang(pc = "action" /\ args.action = "profiles_set_default",
              Locks_set_default, ProfilesSetDefaultRun)

ProfilesRemoveRun ==
    /\ pc = "action"
    /\ args.action = "profiles_remove"
    /\ \E removed \in BOOLEAN :
          LET i == NamedIndex(profiles, args.name[1])
              at == FileIndex(host.profile_files, args.name[1])
          IN  IF i = 0 \/ at = 0 \/ ~removed
              THEN result' = "err" /\ host' = host
              ELSE /\ result' = "ok"
                   /\ host' = [host EXCEPT !.profile_files = RemoveAt(@, at)]
    /\ ProfileDone
    /\ UNCHANGED <<tuxvantage, resolved>>

ProfilesRemove ==
    RunOrHang(pc = "action" /\ args.action = "profiles_remove", Locks_remove,
              ProfilesRemoveRun)

ProfilesJsonRun ==
    /\ pc = "action"
    /\ args.action = "profiles_json"
    /\ \E readable \in BOOLEAN :
          LET path == Profiles_with_built_ins(profiles)
              i == NamedIndex(path, args.name[1])
          IN  IF i = 0
              THEN result' = "err" /\ resolved' = resolved
              ELSE IF path[i].builtin \/ readable \/ args.generate_on_error
              THEN result' = "ok" /\ resolved' = Some(<<path[i]>>)
              ELSE result' = "err" /\ resolved' = resolved
    /\ ProfileDone
    /\ UNCHANGED <<tuxvantage, host>>

ProfilesJson ==
    RunOrHang(pc = "action" /\ args.action = "profiles_json", Locks_json,
              ProfilesJsonRun)

(***************************************************************************)
(* Every action of the program, with the store's lock followed through     *)
(* each of them.                                                           *)
(***************************************************************************)
LockArgsOf(action) ==
    [machine : {None}, profile : {None}, handler : {None},
     action : {action},
     panic : {FALSE}, backtrace : {Backtrace_DEFAULT},
     skip_consistency_checks : {FALSE},
     install : IF action = "regulate" THEN BOOLEAN ELSE {FALSE},
     op_handler : {None},
     threshold : {BatteryLevel_DEFAULT}, cooldown : {CoolDown_DEFAULT},
     infallible : {FALSE}, matches : {None},
     name : IF action \in ProfileActions \ {"profiles_get_default"}
            THEN (IF action = "profiles_get" THEN {None} ELSE {})
                    \cup {Some("custom"), Some("Ideapad15Amd"), Some("missing")}
            ELSE {None},
     create_new : IF action = "profiles_set" THEN BOOLEAN ELSE {FALSE},
     generate_on_error : IF action = "profiles_json" THEN BOOLEAN ELSE {FALSE}]

InitLock ==
    /\ InitProcess
    /\ args \in UNION {LockArgsOf(a) : a \in Actions \cup ProfileActions}
    /\ tuxvantage \in {[TuxVantage_DEFAULT EXCEPT !.profile = pr] :
                         pr \in Option({"custom", "missing"})}
    /\ hwstate = [f \in Feature |-> FALSE]
    /\ batteries = IF args.action = "regulate"
                   THEN [manager_ok |-> TRUE,
                         entries |-> <<BatteryEntry(Some("A"))>>]
                   ELSE NoBatteries
    /\ host \in {[Host_DEFAULT EXCEPT !.profile_files = fl] :
                    fl \in {<<>>,
                            <<ProfileFile(Profile("custom", {"81YK"}, FALSE))>>,
                            <<BrokenFile,
                              ProfileFile(Profile("other", {"X2"}, FALSE))>>}}
    /\ consistency = Consistency_DEFAULT
    /\ ledger = Consistency_DEFAULT

NextLock ==
    \/ Next
    \/ RegulateInstall
    \/ ProfilesGet
    \/ ProfilesGetDefault
    \/ ProfilesSet
    \/ ProfilesSetDefault
    \/ ProfilesRemove
    \/ ProfilesJson

SpecLock == InitLock /\ [][NextLock]_vars

\* C19: no action of the program requests a read or write view of the store
\* while the main thread holds the store's write guard: the main thread is
\* never blocked on the lock with its own write guard in hand.
NoRequestUnderOwnWriteGuard ==
    ~(pc = "deadlock" /\ lock = "write")

\* C19 witness: set_default took the write guard, stored the new default
\* profile and returned with the guard released.
DefaultProfileSetAndReleased ==
    /\ pc = "done"
    /\ args.action = "profiles_set_default"
    /\ result = "ok"
    /\ tuxvantage.profile = Some("custom")
    /\ tuxvantage.profile = args.name
    /\ lock = "none"

\* C20: neither auxiliary unit of the regulation loop ever panics: the
\* listener discards a second or later signal and the timer discards a
\* completion that lost the race to a signal, while the loop runs and after
\* regulate has returned and dropped the receivers.
AuxiliaryUnitsNeverPanic ==
    /\ listener # "panicked"
    /\ timer # "panicked"

(***************************************************************************)
(* The regulation loop without a bound on its cycles.  The record of the   *)
(* cycles (readings, calls, hardware log) is cleared when it is full, so   *)
(* that the loop can run for ever over finitely many states.               *)
(***************************************************************************)
SelectSleepForgetting ==
    /\ pc = "select"
    /\ sleepChan = 1
    /\ Len(readings) >= MaxCycles
    /\ sleepChan' = 0
    /\ timer' = "none"
    /\ pc' = "loop"
    /\ readings' = <<>>
    /\ calls' = <<>>
    /\ hw' = <<>>
    /\ started' = [started EXCEPT !.timers = 0]
    /\ UNCHANGED <<args, cfgVars, lock, result, hwstate, hwerr, charge, refreshErr>>
    /\ UNCHANGED <<batVars, sigVars>>
    /\ UNCHANGED envVars
    /\ UNCHANGED outVars

InitLive ==
    /\ InitProcess
    /\ InitEnv
    /\ args \in {a \in ArgsOf("regulate") : ~a.infallible}
    /\ tuxvantage = TuxVantage_DEFAULT
    /\ hwstate \in [Feature -> BOOLEAN]
    /\ batteries = [manager_ok |-> TRUE, entries |-> <<BatteryEntry(Some("A"))>>]

NextLive ==
    \/ Startup
    \/ RegulateStart
    \/ RegulateToggle
    \/ RegulateRefresh
    \/ SelectSleep
    \/ SelectSleepForgetting
    \/ SelectSignal
    \/ TimerFire
    \/ SignalDeliver
    \/ ListenerForward
    \/ ProcessExit

(***************************************************************************)
(* Scheduling.  The main thread, the timer thread and the listener thread  *)
(* each take their next step when they can (weak fairness).  select! picks *)
(* at random among the operations that are ready, so a signal notification *)
(* that is ready in cycle after cycle is not passed over for ever (strong  *)
(* fairness of the signal branch).  Signals themselves come when they come.*)
(***************************************************************************)
FairnessLive ==
    /\ WF_vars(Startup)
    /\ WF_vars(RegulateStart)
    /\ WF_vars(RegulateToggle)
    /\ WF_vars(RegulateRefresh)
    /\ WF_vars(SelectSleep \/ SelectSleepForgetting)
    /\ SF_vars(SelectSignal)
    /\ WF_vars(TimerFire)
    /\ WF_vars(ListenerForward)

SpecLive == InitLive /\ [][NextLive]_vars /\ FairnessLive

SignalAwaitsLoop ==
    /\ pc \in {"loop", "refresh", "select"}
    /\ sigPending > 0 \/ signalChan = 1

\* C21: a termination signal delivered while the loop runs (during the
\* hardware call, the refresh or the wait) leads, under fair scheduling, to
\* the signal branch with its terminal enable and to the return of regulate,
\* unless a hardware call fails first; the timer being ready at the same
\* time in every cycle does not prevent it.
SignalLeadsToReturn ==
    SignalAwaitsLoop ~> (pc = "done" /\ (SignalTerminated \/ result = "err"))

\* C21 witness: the loop returned Ok through the signal branch in a cycle
\* in which the timer notification was ready as well.
SignalTakenWithTimerReady ==
    /\ pc = "done"
    /\ result = "ok"
    /\ SignalTerminated
    /\ sleepChan = 1
    /\ timer = "sent"

(***************************************************************************)
(* args: the regulate subcommand as clap parses it.  --threshold and       *)
(* --cooldown carry default_value_t, so the parsed value is the default    *)
(* when the command line gives none; the command line is kept next to the  *)
(* parsed values.                                                          *)
(***************************************************************************)
CommandLines ==
    [threshold : Option({70}), cooldown : Option({5}),
     infallible : {FALSE}, matches : {None}, install : {FALSE}]

Regulate_parse(cli) ==
    [machine |-> None, profile |-> None, handler |-> None,
     action |-> "regulate",
     panic |-> FALSE, backtrace |-> Backtrace_DEFAULT,
     skip_consistency_checks |-> FALSE,
     install |-> cli.install,
     op_handler |-> None,
     threshold |-> UnwrapOr(cli.threshold, BatteryLevel_DEFAULT),
     cooldown |-> UnwrapOr(cli.cooldown, CoolDown_DEFAULT),
     infallible |-> cli.infallible,
     matches |-> cli.matches,
     cli |-> cli]

RegulateStores ==
    {[TuxVantage_DEFAULT EXCEPT !.battery.threshold = th,
                                !.battery.cooldown = cd] :
        th \in Option({50}), cd \in Option({30})}

InitRegulate ==
    /\ InitProcess
    /\ InitEnv
    /\ args \in {Regulate_parse(cli) : cli \in CommandLines}
    /\ tuxvantage \in RegulateStores
    /\ hwstate = [f \in Feature |-> FALSE]
    /\ batteries = [manager_ok |-> TRUE, entries |-> <<BatteryEntry(Some("A"))>>]

NextRegulate ==
    \/ Startup
    \/ RegulateStart
    \/ RegulateToggle
    \/ RegulateRefresh
    \/ SelectSleep
    \/ SelectSignal
    \/ TimerFire
    \/ SignalDeliver
    \/ ListenerForward
    \/ ProcessExit

SpecRegulate == InitRegulate /\ [][NextRegulate]_vars

LoopRuns == pc \in {"loop", "refresh", "select"}

\* C22: the regulation loop runs with the threshold and the cooldown given
\* on the command line if given, else with the persisted ones if the store
\* has them, else with the defaults 80 and 60.
LoopUsesThreeTierThreshold ==
    LoopRuns =>
        /\ locals.threshold =
              Tier3(args.cli.threshold, tuxvantage.battery.threshold, 80)
        /\ locals.cooldown =
              Tier3(args.cli.cooldown, tuxvantage.battery.cooldown, 60)

(***************************************************************************)
(* Machine mode: every combination of the --machine argument, the          *)
(* persisted machine setting and the kind of standard output, for an       *)
(* operation that prints its messages unless machine mode is effective.    *)
(***************************************************************************)
OutputArgsOf(action) ==
    [machine : Option(Machine), profile : {None}, handler : {None},
     action : {action},
     panic : {FALSE}, backtrace : {Backtrace_DEFAULT},
     skip_consistency_checks : {FALSE}, install : {FALSE},
     op_handler : {None},
     threshold : {BatteryLevel_DEFAULT}, cooldown : {CoolDown_DEFAULT},
     infallible : {FALSE}, matches : {None}]

InitOutput ==
    /\ InitProcess
    /\ args \in OutputArgsOf("bc_enable") \cup OutputArgsOf("bc_disable")
    /\ tuxvantage \in {[TuxVantage_DEFAULT EXCEPT !.machine = m] :
                         m \in Option(Machine)}
    /\ hwstate \in [Feature -> BOOLEAN]
    /\ batteries = NoBatteries
    /\ host \in {[Host_DEFAULT EXCEPT !.stdout_tty = t] : t \in BOOLEAN}
    /\ consistency = Consistency_DEFAULT
    /\ ledger = Consistency_DEFAULT

NextOutput ==
    \/ Startup
    \/ BatteryConservationEnable
    \/ BatteryConservationDisable
    \/ ProcessExit

SpecOutput == InitOutput /\ [][NextOutput]_vars

Printed(form) == \E i \in 1..Len(out) : out[i] = form

\* C23: main chooses the form of its final report by the effective machine
\* mode (override, else persisted, else auto) that the operations use for
\* their messages, so that a finished run has printed exactly one of the
\* two forms, machine-readable or human-readable, and never neither.
ReportFollowsEffectiveMachineMode ==
    pc = "exited" =>
        /\ statics.MACHINE = Machine_get(TuxVantage_machine(tuxvantage), host)
        /\ Printed("json") # Printed("text")

(***************************************************************************)
(* Boolean settings: every combination of the flags given on the command   *)
(* line and the flags of the persisted configuration.                      *)
(***************************************************************************)
Backtraces == [panics : BOOLEAN, errors : BOOLEAN]

FlagArgs ==
    [machine : {None}, profile : {None}, handler : {None},
     action : {"regulate"},
     panic : BOOLEAN, backtrace : Backtraces,
     skip_consistency_checks : {FALSE}, install : {FALSE},
     op_handler : {None},
     threshold : {BatteryLevel_DEFAULT}, cooldown : {CoolDown_DEFAULT},
     infallible : BOOLEAN, matches : {None}]

FlagStores ==
    {[TuxVantage_DEFAULT EXCEPT !.panic = p, !.backtrace = b,
                                !.battery.infallible = i] :
        p \in BOOLEAN, b \in Backtraces, i \in BOOLEAN}

InitFlags ==
    /\ InitProcess
    /\ InitEnv
    /\ args \in FlagArgs
    /\ tuxvantage \in FlagStores
    /\ hwstate = [f \in Feature |-> FALSE]
    /\ batteries = NoBatteries

NextFlags ==
    \/ Startup
    \/ RegulateStart
    \/ Resolve

SpecFlags == InitFlags /\ [][NextFlags]_vars

SequenceArgs ==
    {a \in UNION {ArgsOf(action) : action \in Actions} :
        a.handler = None /\ ~a.infallible}

SequenceBatteries(a) ==
    IF a.action = "regulate"
    THEN [manager_ok |-> TRUE, entries |-> <<BatteryEntry(Some("A"))>>]
    ELSE NoBatteries

Exec ==
    /\ pc = "exited"
    /\ pc' = "start"
    /\ args' \in SequenceArgs
    /\ batteries' = SequenceBatteries(args')
    /\ tuxvantage' = [tuxvantage EXCEPT !.overrides = Overrides_DEFAULT]
    /\ consistency' = ledger
    /\ resolved' = None
    /\ locals' = NoLocals
    /\ lock' = "none"
    /\ hw' = <<>>
    /\ hwerr' = "none"
    /\ calls' = <<>>
    /\ readings' = <<>>
    /\ charge' = 0
    /\ refreshErr' = FALSE
    /\ battery' = None
    /\ diag' = "none"
    /\ result' = "none"
    /\ started' = NoStarted
    /\ signalChan' = 0
    /\ sigPending' = 0
    /\ sigSeen' = 0
    /\ listener' = "none"
    /\ timer' = "none"
    /\ sleepChan' = 0
    /\ cell' = FALSE
    /\ inits' = 0
    /\ initErrors' = None
    /\ loads' = 0
    /\ profiles' = <<>>
    /\ context' = None
    /\ evaluated' = <<>>
    /\ statics' = Statics_DEFAULT
    /\ out' = <<>>
    /\ UNCHANGED <<hwstate, host, ledger>>

BothEnabled(st) == st["bc"] /\ st["rc"]

InitSequence ==
    /\ InitProcess
    /\ InitEnv
    /\ args \in SequenceArgs
    /\ tuxvantage \in {[TuxVantage_DEFAULT EXCEPT !.handlers = h] :
                         h \in PersistedHandlers}
    /\ hwstate \in {st \in [Feature -> BOOLEAN] : ~BothEnabled(st)}
    /\ batteries = SequenceBatteries(args)

NextSequence ==
    \/ Next
    \/ Exec

SpecSequence == InitSequence /\ [][NextSequence]_vars

RequestedFeature == IF args.action = "rc_enable" THEN "rc" ELSE "bc"

\* C25: from a hardware state in which conservation and rapid charge are
\* not both enabled, over any sequence of enable and disable operations and
\* regulation cycles, a step makes both features enabled only if it is an
\* enable whose effective handler is Ignore, issued as the single toggle of
\* the requested feature; with Switch or Error the two are never both on.
BothEnabledOnlyThroughIgnore ==
    [][(~BothEnabled(hwstate) /\ BothEnabled(hwstate')) =>
          /\ args.action \in {"bc_enable", "rc_enable", "regulate"}
          /\ ChosenHandler(RequestedFeature) = "Ignore"
          /\ IssuedBy(hw, hw') = <<Toggle(RequestedFeature, TRUE, TRUE)>>]_vars

\* C25 witness: a later invocation enabled rapid charge with handler Ignore
\* while conservation, switched on by an earlier one, stayed enabled.
BothEnabledByIgnore ==
    /\ pc = "done"
    /\ args.action = "rc_enable"
    /\ args.op_handler = Some("Ignore")
    /\ result = "ok"
    /\ hw = <<Toggle("rc", TRUE, TRUE)>>
    /\ BothEnabled(hwstate)

\* C26: a failed refresh of the battery handle does not end the regulation
\* loop and issues no hardware call: the step goes on to the cooldown wait
\* with the handle's charge unchanged, and the value every cycle compares is
\* the one the handle holds, which only the start of the loop and a refresh
\* change.
FailedRefreshKeepsLoopAndCharge ==
    [][ /\ (pc = "refresh" /\ pc' # "refresh" /\ refreshErr')
           => ( /\ pc' = "select"
                /\ timer' = "sleeping"
                /\ result' = result
                /\ hw' = hw
                /\ hwstate' = hwstate
                /\ calls' = calls
                /\ charge' = charge )
        /\ (readings' # readings)
           => ( /\ pc = "loop"
                /\ readings' = Append(readings, charge) )
        /\ (charge' # charge)
           => ( \/ pc = "refresh" /\ ~refreshErr'
                \/ pc = "action"
                \/ pc = "exited" ) ]_vars

\* C26 witness: the cycle after a failed refresh has compared the charge read
\* in the cycle before it, although the handle's first value was different,
\* and the loop is still running.
CycleAfterFailedRefresh ==
    /\ pc = "refresh"
    /\ refreshErr
    /\ Len(readings) = 3
    /\ readings[2] # readings[1]
    /\ readings[3] = readings[2]
    /\ result = "none"

OverrideHandlerOf(tv, f) ==
    IF f = "bc" THEN tv.overrides.handlers.battery_conservation
    ELSE tv.overrides.handlers.rapid_charging

ResolvedHandlerOf(tv, f) ==
    IF f = "bc" THEN Handlers_battery_conservation(TuxVantage_handlers(tv))
    ELSE Handlers_rapid_charging(TuxVantage_handlers(tv))

\* C27: the handler an enable resolves through the downgraded guard is the
\* one it has just written to the override layer through the write guard:
\* an enable given a handler h resolves the handler of its feature to h
\* whatever the persisted handlers are, the store holds h in the override of
\* that feature, and the guard is held from the write to the resolution.
EnableResolvesOwnOverride ==
    [][ ( /\ pc = "action"
          /\ pc' = "done"
          /\ args.action \in EnableActions
          /\ args.op_handler # None )
        => ( /\ OverrideHandlerOf(tuxvantage', RequestedFeature) = args.op_handler
             /\ ResolvedHandlerOf(tuxvantage', RequestedFeature) = args.op_handler[1]
             /\ locals'.handler = args.op_handler[1]
             /\ Locks_enable = <<"write", "downgrade", "drop_read">> ) ]_vars

\* C27 witness: conservation was enabled with the handler Ignore given to the
\* operation while the persisted handler of the feature is Error.
EnableOverrodePersistedHandler ==
    /\ pc = "done"
    /\ args.action = "bc_enable"
    /\ args.op_handler = Some("Ignore")
    /\ tuxvantage.handlers.battery_conservation = Some("Error")
    /\ locals.handler = "Ignore"
    /\ result = "ok"

InitMain ==
    /\ InitProcess
    /\ args \in UNION {LockArgsOf(a) : a \in Actions \cup ProfileActions}
    /\ tuxvantage \in {[TuxVantage_DEFAULT EXCEPT !.profile = pr] :
                         pr \in Option({"custom", "missing"})}
    /\ hwstate = [f \in Feature |-> FALSE]
    /\ batteries = IF args.action = "regulate"
                   THEN [manager_ok |-> TRUE,
                         entries |-> <<BatteryEntry(Some("A"))>>]
                   ELSE NoBatteries
    /\ host \in {[Host_DEFAULT EXCEPT !.config_file = f, !.product = p,
                                      !.profile_files = fl] :
                    f \in ConfigFileStates, p \in {None, Some("81YK")},
                    fl \in {<<>>,
                            <<ProfileFile(Profile("custom", {"81YK"}, FALSE))>>,
                            <<BrokenFile>>}}
    /\ consistency = Consistency_DEFAULT
    /\ ledger = Consistency_DEFAULT

NextMain == NextLock

SpecMain == InitMain /\ [][NextMain]_vars

OperationRunning == pc \in {"action", "loop", "refresh", "select", "deadlock"}

\* C28: whenever a view of the store is held or an operation is running the
\* store has been initialized; an operation other than profile management
\* runs, and issues hardware calls, only with the hardware context created;
\* a profile-management execution never has a context; and the context is
\* created at most once, by main's startup, from the empty cell.
StoreAndContextInitialized ==
    /\ [](/\ (lock # "none" \/ OperationRunning) => cell
          /\ (OperationRunning /\ args.action \notin ProfileActions)
                => context # None
          /\ hw # <<>> => context # None
          /\ args.action \in ProfileActions => context = None)
    /\ [][context' # context => (pc = "start" /\ context = None)]_vars

\* C28 witness: a regulation loop is running under its write guard with the
\* store initialized and the context created from the persisted default
\* profile.
LoopRunsOnInitializedStore ==
    /\ pc = "select"
    /\ lock = "write"
    /\ cell
    /\ tuxvantage.profile = Some("custom")
    /\ context # None
    /\ hw # <<>>

\* C28 witness: a profile-management action has completed with the store
\* initialized and no hardware context.
ProfileActionWithoutContext ==
    /\ pc = "done"
    /\ args.action = "profiles_set_default"
    /\ result = "ok"
    /\ cell
    /\ context = None

\* C29: when regulate with install set returns a failure, the consistency
\* record (in the store and in its file) is as it was before the step and no
\* service unit has been written; an install step never starts the loop.
FailedInstallChangesNothing ==
    [][ InstallStep
        => ( /\ result' = "err"
                => ( /\ consistency' = consistency
                     /\ ledger' = ledger
                     /\ ~host'.unit )
             /\ pc' \in {"done", "deadlock"}
             /\ calls' = <<>>
             /\ hw' = <<>>
             /\ started' = NoStarted ) ]_vars

\* C30: with the first-found predicate and infallible set, the battery
\* returned is the first entry of the enumeration that was read successfully,
\* together with the errors of the entries before it; no battery is returned
\* only when no entry was read successfully.
FirstFoundSkipsErroredEntries ==
    ( /\ pc = "found"
      /\ batteries.manager_ok
      /\ ConfiguredInfallible
      /\ ConfiguredMatches = First )
    => LET es == batteries.entries
           good == {i \in 1..Len(es) : es[i].ok}
       IN  /\ resolved.ok
           /\ IF good = {}
              THEN resolved.battery = None
              ELSE /\ resolved.battery = Some(es[FirstOf(good)])
                   /\ ListsInOrder(resolved.errors,
                                   ErrorsBefore(es, FirstOf(good)))

====
